---------------------------- MODULE Spec2Model ----------------------------
(***************************************************************************)
(* Model of the OwnerScout multi-tier cache (src/services/cacheService.ts): *)
(* the in-memory tier (MemoryCache), the IndexedDB tier (IndexedDBCache)    *)
(* and the facade (CacheService); of the search-cache key builder           *)
(* (src/lib/database.ts); and of the search orchestrator, its merge and its *)
(* fit scoring (services/placesService.ts, kept as src/unnamed/part_007).   *)
(* Further sections model the proxy of the aggregate endpoint over the      *)
(* search_cache table (src/api/places-compute-insights.ts), the search over *)
(* an upstream API with a fixed set of places, full listings, and the       *)
(* outbound calls of one invocation.                                        *)
(*                                                                          *)
(* JavaScript runs one task at a time.  A handler runs without interruption *)
(* until it suspends on an IndexedDB event; promise continuations           *)
(* (microtasks) run before the next event.  One action of the model is one  *)
(* such uninterrupted run: a call of the public API up to its first         *)
(* suspension, or the delivery of one IndexedDB event together with the     *)
(* continuation it resumes.  Date.now() is read as one instant `now` inside *)
(* one run.                                                                 *)
(***************************************************************************)
EXTENDS Integers, Sequences, FiniteSets, TLC

VARIABLES
    now,          \* Date.now(), in milliseconds
    cache,        \* MemoryCache.cache: the Map's entries in insertion order
    maxEntries,   \* MemoryCache.maxEntries (config.maxMemoryEntries)
    store,        \* the IndexedDB object store 'cache': key -> entry
    db,           \* IndexedDBCache.db: "null" or "open"
    initialized,  \* IndexedDBCache.initialized
    initPromise,  \* IndexedDBCache.initPromise: "null", "pending", "resolved", "rejected"
    initCount,    \* number of indexedDB.open requests issued by _init
    initWaiters,  \* continuations suspended on `await this.init()`, in order
    txQueue,      \* IndexedDB transactions created and not yet run, in creation order
    stats,        \* CacheService.stats: [hits, misses]
    enableMetrics,\* config.enableMetrics
    maxSize,      \* IndexedDBCache.maxSize (config.maxIndexedDBSize)
    calls,        \* number of API calls issued so far (bounds the run)
    nValue,       \* history: completed CacheService.get calls that returned a value
    nAbsent,      \* history: completed CacheService.get calls that returned null
    faults,       \* number of storage request errors injected so far (bounds the run)
    deleted,      \* history: keys whose CacheService.delete completed with no later set
    last,         \* history: the most recent step and the state it started from
    query,        \* buildCacheKey: the `filters` of a query
    variant,      \* buildCacheKey: the same filters, built in another order
    keyPair,      \* buildCacheKey: <<key of query, key of variant>> once computed
    nodes,        \* executeAreaInsightsSearch: the invocations in progress, as a
                  \* binary tree (root 1, children 2i and 2i+1 of invocation i)
    requests,     \* number of upstream aggregate requests issued by the search
    others,       \* number of upstream answers other than RESOURCE_EXHAUSTED (bounds the run)
    insightType,  \* the insight type of the search
    lastJoin,     \* history: the invocation that last resumed from its two
                  \* sub-searches, and the two as they settled
    part1,        \* mergeAggregateResponses: first partial result (r1)
    part2,        \* mergeAggregateResponses: second partial result (r2)
    merged,       \* mergeAggregateResponses: <<result>> once computed
    candidate,    \* calculateFitScore: the place, its tech stack and isIndie
    fit,          \* calculateFitScore: <<result>> once computed
    today,        \* the proxy's clock (new Date()), in days
    table,        \* the search_cache table: cache_key -> [result, expires_at]
    inflight,     \* places-compute-insights: the requests being handled
    writes,       \* setSearchCache calls issued and not yet run by the database
    served,       \* history: the answers of the handler, in order
    population,   \* the places the upstream API knows, with rating and fit score
    okAnswers,    \* history: number of upstream aggregate requests answered 200
    returned,     \* searchPlacesAggregate: <<outcome>> once it has returned
    raws,         \* full listing: the two upstream answers of a bisection
    fetched,      \* history: the number of detail fetches made for each answer
    lowerRes,     \* full listing: <<result>> of the lower sub-search once settled
    upperRes,     \* full listing: <<result>> of the upper sub-search once settled
    listing,      \* full listing: <<merged result>> once computed
    outbound      \* the outbound calls of one invocation and how each has settled

vars == <<now, cache, maxEntries, store, db, initialized, initPromise, initCount,
          initWaiters, txQueue, stats, enableMetrics, maxSize, calls, nValue,
          nAbsent, faults, deleted, last, query, variant, keyPair, nodes,
          requests, others, part1, part2, merged, candidate, fit,
          today, table, inflight, writes, served, insightType, lastJoin,
          population, okAnswers, returned, raws, fetched, lowerRes, upperRes,
          listing, outbound>>

memVars == <<cache, maxEntries>>
idbVars == <<store, db, initialized, initPromise, initCount, initWaiters, txQueue, maxSize>>
svcVars == <<stats, enableMetrics, nValue, nAbsent, deleted>>
\* (faults is left out of the groups: only TxError changes it)
cacheVars == <<now, cache, maxEntries, store, db, initialized, initPromise, initCount,
               initWaiters, txQueue, stats, enableMetrics, maxSize, calls, nValue,
               nAbsent, faults, deleted, last>>
keyVars == <<query, variant, keyPair>>
\* the state of the components outside the cache
searchVars == <<nodes, requests, others, insightType, lastJoin>>
mergeVars == <<part1, part2, merged>>
scoreVars == <<candidate, fit>>
proxyVars == <<today, table, inflight, writes, served>>
areaVars == <<population, okAnswers, returned>>
listingVars == <<raws, fetched, lowerRes, upperRes, listing>>
extraVars == <<proxyVars, areaVars, listingVars, outbound>>
otherVars == <<keyVars, searchVars, mergeVars, scoreVars, extraVars>>

-----------------------------------------------------------------------------
(* Bounds of the model *)

MaxSecond == 1
MaxCapacity == 2
MaxMemOps == 3

(* Program constants *)

MsPerSecond == 1000
DefaultMaxMemoryEntries == 100
DefaultTTL == 604800
DefaultMaxIndexedDBSize == 524288000

Keys == {"", "a", "b"}
Values == {"v1", "v2"}
Null == "null"
TTLs == {0, 1}

\* The clock is observed just before, at and just after whole seconds.
Times == {t \in 0..(MaxSecond * MsPerSecond + 1) : t % MsPerSecond \in {0, 1, MsPerSecond - 1}}

-----------------------------------------------------------------------------
(* CacheEntry and the JavaScript Map *)

CacheEntry(key, value, ttl, t) ==
    [key |-> key, value |-> value, expiresAt |-> t + ttl * MsPerSecond,
     createdAt |-> t, accessedAt |-> t, accessCount |-> 0]

MapKeys(c) == {c[i].key : i \in 1..Len(c)}

MapHas(c, key) == key \in MapKeys(c)

MapIndex(c, key) == CHOOSE i \in 1..Len(c) : c[i].key = key

MapGet(c, key) == c[MapIndex(c, key)]

MapDelete(c, key) == SelectSeq(c, LAMBDA e : e.key # key)

\* Map.set keeps the position of a key that is already present.
MapSet(c, e) ==
    IF MapHas(c, e.key)
    THEN [i \in 1..Len(c) |-> IF c[i].key = e.key THEN e ELSE c[i]]
    ELSE Append(c, e)

-----------------------------------------------------------------------------
(* MemoryCache *)

Expired(e, t) == t > e.expiresAt

Touch(e, t) == [e EXCEPT !.accessedAt = t, !.accessCount = @ + 1]

MemoryCache_get(c, key, t) ==
    IF ~MapHas(c, key) THEN [cache |-> c, result |-> Null]
    ELSE LET entry == MapGet(c, key) IN
         IF Expired(entry, t)
         THEN [cache |-> MapDelete(c, key), result |-> Null]
         ELSE [cache |-> MapSet(c, Touch(entry, t)), result |-> entry.value]

\* The scan of evictLRU: the first entry, in Map order, with the least accessedAt
\* (0 when the Map is empty: oldestKey stays null).
OldestIndex(c) ==
    IF Len(c) = 0 THEN 0
    ELSE CHOOSE i \in 1..Len(c) :
            /\ \A j \in 1..Len(c) : c[i].accessedAt <= c[j].accessedAt
            /\ \A j \in 1..(i - 1) : c[j].accessedAt > c[i].accessedAt

\* `if (oldestKey)`: null and the empty string are both falsy.
Truthy(key) == key # ""

MemoryCache_evictLRU(c) ==
    LET i == OldestIndex(c) IN
    IF i # 0 /\ Truthy(c[i].key) THEN MapDelete(c, c[i].key) ELSE c

AtCapacity(c, cap) == Len(c) >= cap

MemoryCache_set(c, key, value, ttl, t, cap) ==
    LET c1 == IF AtCapacity(c, cap) THEN MemoryCache_evictLRU(c) ELSE c
    IN MapSet(c1, CacheEntry(key, value, ttl, t))

MemoryCache_delete(c, key) == [cache |-> MapDelete(c, key), result |-> MapHas(c, key)]

MemoryCache_clear(c) == <<>>

MemoryCache_has(c, key, t) ==
    IF ~MapHas(c, key) THEN [cache |-> c, result |-> FALSE]
    ELSE IF Expired(MapGet(c, key), t)
         THEN [cache |-> MapDelete(c, key), result |-> FALSE]
         ELSE [cache |-> c, result |-> TRUE]

MemoryCache_size(c, t) ==
    LET c1 == SelectSeq(c, LAMBDA e : ~Expired(e, t))
    IN [cache |-> c1, result |-> Len(c1)]


-----------------------------------------------------------------------------
(* History record of the most recent step *)

BoolStr(b) == IF b THEN "true" ELSE "false"

EmptyStore == [k \in {} |-> Null]

Pre == [cache |-> cache, store |-> store, stats |-> stats]

Step(op, step, key, result, evicted) ==
    [op |-> op, step |-> step, key |-> key, result |-> result, at |-> now,
     evicted |-> evicted, arg |-> 0, snap |-> <<>>, pre |-> Pre]

NoStep ==
    [op |-> "none", step |-> "none", key |-> "", result |-> Null, at |-> 0,
     evicted |-> {}, arg |-> 0, snap |-> <<>>,
     pre |-> [cache |-> <<>>, store |-> EmptyStore, stats |-> [hits |-> 0, misses |-> 0]]]

-----------------------------------------------------------------------------
(* The memory tier on its own: every public operation of MemoryCache *)

\* The components outside the cache, before any use
IdleKey == query = <<>> /\ variant = <<>> /\ keyPair = <<>>

IdleSearch ==
    nodes = <<>> /\ requests = 0 /\ others = 0 /\ insightType = "" /\ lastJoin = <<>>

IdleMerge == part1 = <<>> /\ part2 = <<>> /\ merged = <<>>

IdleScore == candidate = <<>> /\ fit = <<>>

IdleProxy ==
    today = 0 /\ table = <<>> /\ inflight = <<>> /\ writes = <<>> /\ served = <<>>

IdleArea == population = {} /\ okAnswers = 0 /\ returned = <<>>

IdleListing ==
    raws = <<>> /\ fetched = <<>> /\ lowerRes = <<>> /\ upperRes = <<>> /\ listing = <<>>

IdleCalls == outbound = <<>>

IdleExtra == IdleProxy /\ IdleArea /\ IdleListing /\ IdleCalls

IdleOthers == IdleKey /\ IdleSearch /\ IdleMerge /\ IdleScore /\ IdleExtra

IdleService ==
    /\ store = EmptyStore
    /\ db = "null"
    /\ initialized = FALSE
    /\ initPromise = "null"
    /\ initCount = 0
    /\ initWaiters = <<>>
    /\ txQueue = <<>>
    /\ maxSize = DefaultMaxIndexedDBSize
    /\ stats = [hits |-> 0, misses |-> 0]
    /\ enableMetrics = TRUE
    /\ nValue = 0
    /\ nAbsent = 0
    /\ deleted = {}
    /\ faults = 0

MemInit ==
    /\ now = 0
    /\ cache = <<>>
    /\ maxEntries \in 1..MaxCapacity
    /\ calls = 0
    /\ last = NoStep
    /\ IdleService
    /\ IdleOthers

\* The cache as constructed and never used
IdleCache ==
    /\ now = 0
    /\ cache = <<>>
    /\ maxEntries = DefaultMaxMemoryEntries
    /\ calls = 0
    /\ last = NoStep
    /\ IdleService

MemFrame == UNCHANGED <<now, maxEntries, idbVars, svcVars, faults, otherVars>>

MemGet ==
    \E key \in Keys :
        /\ calls < MaxMemOps
        /\ LET r == MemoryCache_get(cache, key, now) IN
            /\ cache' = r.cache
            /\ last' = Step("mem.get", "return", key, r.result, {})
        /\ calls' = calls + 1
        /\ MemFrame

MemSet ==
    \E key \in Keys, value \in Values, ttl \in TTLs :
        /\ calls < MaxMemOps
        /\ LET c1 == IF AtCapacity(cache, maxEntries) THEN MemoryCache_evictLRU(cache) ELSE cache IN
            /\ cache' = MemoryCache_set(cache, key, value, ttl, now, maxEntries)
            /\ last' = Step("mem.set", "return", key, value, MapKeys(cache) \ MapKeys(c1))
        /\ calls' = calls + 1
        /\ MemFrame

MemHas ==
    \E key \in Keys :
        /\ calls < MaxMemOps
        /\ LET r == MemoryCache_has(cache, key, now) IN
            /\ cache' = r.cache
            /\ last' = Step("mem.has", "return", key, BoolStr(r.result), {})
        /\ calls' = calls + 1
        /\ MemFrame

MemDelete ==
    \E key \in Keys :
        /\ calls < MaxMemOps
        /\ LET r == MemoryCache_delete(cache, key) IN
            /\ cache' = r.cache
            /\ last' = Step("mem.delete", "return", key, BoolStr(r.result), {})
        /\ calls' = calls + 1
        /\ MemFrame

MemClear ==
    /\ calls < MaxMemOps
    /\ cache' = MemoryCache_clear(cache)
    /\ last' = Step("mem.clear", "return", "", "ok", {})
    /\ calls' = calls + 1
    /\ MemFrame

MemSize ==
    /\ calls < MaxMemOps
    /\ LET r == MemoryCache_size(cache, now) IN
        /\ cache' = r.cache
        /\ last' = Step("mem.size", "return", "", "ok", {})
    /\ calls' = calls + 1
    /\ MemFrame

Tick ==
    /\ \E t \in Times : t > now /\ now' = t
    /\ UNCHANGED <<memVars, idbVars, svcVars, calls, faults, last, otherVars>>

MemNext == MemGet \/ MemSet \/ MemHas \/ MemDelete \/ MemClear \/ MemSize \/ Tick

SpecMem == MemInit /\ [][MemNext]_vars

-----------------------------------------------------------------------------
(* IndexedDBCache: the object store and its size estimate *)

\* IndexedDB iterates an object store in key order: "" < "a" < "b".
KeyOrder == <<"", "a", "b">>

FieldNames == <<"key", "value", "expiresAt", "createdAt", "accessedAt", "accessCount">>

RECURSIVE Digits(_)
Digits(n) == IF n < 10 THEN 1 ELSE 1 + Digits(n \div 10)

RECURSIVE SumLen(_)
SumLen(names) == IF names = <<>> THEN 0 ELSE Len(Head(names)) + 3 + SumLen(Tail(names))

\* JSON.stringify(entry).length for string values and integer timestamps:
\* braces, commas, quoted field names with colons, quoted key and value, digits.
JsonLength(e) ==
    2 + (Len(FieldNames) - 1) + SumLen(FieldNames)
      + (Len(e.key) + 2) + (Len(e.value) + 2)
      + Digits(e.expiresAt) + Digits(e.createdAt) + Digits(e.accessedAt)
      + Digits(e.accessCount)

estimateEntrySize(e) == JsonLength(e) * 2

RECURSIVE SumSizes(_, _)
SumSizes(s, ks) ==
    IF ks = {} THEN 0
    ELSE LET k == CHOOSE x \in ks : TRUE
         IN estimateEntrySize(s[k]) + SumSizes(s, ks \ {k})

\* getSize: the sum of the estimates over getAll()
IdbSize(s) == SumSizes(s, DOMAIN s)

StoreDelete(s, key) == [k \in DOMAIN s \ {key} |-> s[k]]

StorePut(s, e) == [k \in DOMAIN s \cup {e.key} |-> IF k = e.key THEN e ELSE s[k]]

\* evictExpired: the cursor over index 'expiresAt' with upperBound(bound), inclusive
IdbEvictExpired(s, bound) ==
    [k \in {x \in DOMAIN s : s[x].expiresAt > bound} |-> s[k]]

\* evictLRU: store.openCursor() visits the entries in key order and deletes until
\* bytesEvicted >= targetBytes or the cursor is exhausted.
RECURSIVE CursorEvict(_, _, _, _)
CursorEvict(s, ks, bytesEvicted, targetBytes) ==
    IF ks = <<>> \/ bytesEvicted >= targetBytes THEN s
    ELSE CursorEvict(StoreDelete(s, Head(ks)), Tail(ks),
                     bytesEvicted + estimateEntrySize(s[Head(ks)]), targetBytes)

IdbEvictLRU(s, targetBytes) ==
    CursorEvict(s, SelectSeq(KeyOrder, LAMBDA k : k \in DOMAIN s), 0, targetBytes)

\* Math.floor(this.maxSize * 0.1)
EvictTarget(budget) == budget \div 10

-----------------------------------------------------------------------------
(* IndexedDBCache.init and the suspended continuations *)

\* What `await this.init()` does for its caller: "ready" (initialized), "await"
\* (returns the pending initPromise), "throw" (returns the rejected initPromise)
\* or "start" (calls _init, which issues indexedDB.open).
\* (init without its `if (this.initPromise) return this.initPromise`)
IdbInitNoPromiseCheck(inited, promise) == IF inited THEN "ready" ELSE "start"

IdbInit(inited, promise) ==
    IF inited THEN "ready"
    ELSE IF promise # "null" THEN (IF promise = "rejected" THEN "throw" ELSE "await")
    ELSE "start"

\* A continuation: the API call `op` it belongs to and the transaction `kind` it
\* is about to create or is waiting for.
Cont(op, kind, key, value, ttl) ==
    [op |-> op, kind |-> kind, key |-> key, value |-> value, ttl |-> ttl,
     entry |-> <<>>, arg |-> 0, snap |-> <<>>, stale |-> FALSE]

\* Microtasks (continuations released by a settled initPromise) run before any
\* other task.
Quiet == initPromise = "pending" \/ initWaiters = <<>>

-----------------------------------------------------------------------------
(* CacheService: statistics and the outcome of a call *)

Undefined == -1

\* ttl ?? this.config.defaultTTL
EffectiveTTL(ttl) == IF ttl = Undefined THEN DefaultTTL ELSE ttl

RecordHit(s) == IF enableMetrics THEN [s EXCEPT !.hits = @ + 1] ELSE s

\* (a slip that would count a miss as a hit)
RecordMissAsHit(s) == IF enableMetrics THEN [s EXCEPT !.hits = @ + 1] ELSE s

RecordMiss(s) == IF enableMetrics THEN [s EXCEPT !.misses = @ + 1] ELSE s

\* hits / totalRequests as the fraction num/den; 0 is 0/1.
HitRate(s) ==
    LET totalRequests == s.hits + s.misses
    IN IF totalRequests > 0 THEN [num |-> s.hits, den |-> totalRequests]
       ELSE [num |-> 0, den |-> 1]

\* getEntryMetadata is a stub that resolves to null (no metadata).
getEntryMetadata(key) == <<>>

\* The promotion step of CacheService.get after a durable hit.
Promote(c, key, value, t, cap) ==
    LET meta == getEntryMetadata(key) IN
    IF meta # <<>>
    THEN MemoryCache_set(c, key, value, (meta[1].expiresAt - t) \div MsPerSecond, t, cap)
    ELSE c

\* The API call `op` returns `outcome` to its caller ("error": it throws).
Finish(op, key, stale, outcome, snap) ==
    /\ stats' = CASE op = "get" /\ outcome \in Values -> RecordHit(stats)
                  [] op = "get" /\ outcome = Null -> RecordMiss(stats)
                  [] op = "clear" /\ outcome = "ok" -> [hits |-> 0, misses |-> 0]
                  [] OTHER -> stats
    /\ nValue' = CASE op = "get" /\ outcome \in Values -> nValue + 1
                   [] op = "clear" /\ outcome = "ok" -> 0
                   [] OTHER -> nValue
    /\ nAbsent' = CASE op = "get" /\ outcome = Null -> nAbsent + 1
                    [] op = "clear" /\ outcome = "ok" -> 0
                    [] OTHER -> nAbsent
    /\ deleted' = IF op = "delete" /\ outcome = "ok" /\ ~stale
                  THEN deleted \cup {key} ELSE deleted
    /\ last' = [Step(op, "return", key, outcome, {}) EXCEPT !.snap = snap]

\* A step that returns nothing to a caller: a call that suspends, or a step of
\* work running in the background.
Bg(op, step, key, outcome, evicted) ==
    /\ last' = Step(op, step, key, outcome, evicted)
    /\ UNCHANGED <<stats, nValue, nAbsent, deleted>>

Awaited == {"get", "has", "delete", "clear", "getStats"}

\* A rejection reaches continuation r: an awaited call throws to its caller;
\* set's durable write has a .catch that logs, the expiry delete a .catch that
\* ignores, and the access write-back has no handler.
Fail(r) ==
    IF r.op \in Awaited THEN Finish(r.op, r.key, r.stale, "error", <<>>)
    ELSE Bg(r.op, "failed", r.key, "error", {})

\* `await this.init()` for the new continuation r, given the queues w and q.
Enqueue(w, q, r) ==
    LET o == IdbInit(initialized, initPromise) IN
    /\ initWaiters' = IF o \in {"await", "start"} THEN Append(w, r) ELSE w
    /\ txQueue' = IF o = "ready" THEN Append(q, r) ELSE q
    /\ initCount' = IF o = "start" THEN initCount + 1 ELSE initCount
    /\ initPromise' = IF o = "start" THEN "pending" ELSE initPromise

Thrown == IdbInit(initialized, initPromise) = "throw"

Suspend(r) ==
    /\ Enqueue(initWaiters, txQueue, r)
    /\ IF Thrown THEN Fail(r) ELSE Bg(r.op, "call", r.key, "pending", {})

ConfigFrame == UNCHANGED <<maxEntries, enableMetrics, maxSize, otherVars>>

CallFrame ==
    /\ calls' = calls + 1
    /\ UNCHANGED <<now, store, db, initialized, faults>>
    /\ ConfigFrame

IdleIdb == UNCHANGED <<initWaiters, txQueue, initCount, initPromise>>

-----------------------------------------------------------------------------
(* CacheService: the public calls, each up to its first suspension *)

MaxCalls == 2
MaxFaults == 1

SvcKeys == {"a", "b"}
\* The callers of this repository pass a ttl of days or none, far beyond the
\* clock of the model: set is called without one.  Entries with a short ttl come
\* from an earlier session (EarlierStores, EarlierFullStores).
SvcTTLs == {Undefined}

CanCall == calls < MaxCalls /\ Quiet

CallGet ==
    \E key \in SvcKeys :
        /\ CanCall
        /\ LET m == MemoryCache_get(cache, key, now) IN
            /\ cache' = m.cache
            /\ IF m.result # Null
               THEN Finish("get", key, FALSE, m.result, <<>>) /\ IdleIdb
               ELSE Suspend(Cont("get", "get", key, Null, 0))
        /\ CallFrame

\* A set issued after a delete of the same key began: that delete no longer
\* vouches for the key's absence.
MarkStale(q, key) ==
    [i \in 1..Len(q) |->
        IF q[i].op = "delete" /\ q[i].key = key THEN [q[i] EXCEPT !.stale = TRUE] ELSE q[i]]

CallSet ==
    \E key \in SvcKeys, value \in Values, ttl \in SvcTTLs :
        /\ CanCall
        /\ cache' = MemoryCache_set(cache, key, value, EffectiveTTL(ttl), now, maxEntries)
        /\ Enqueue(MarkStale(initWaiters, key), MarkStale(txQueue, key),
                   Cont("set", "size1", key, value, EffectiveTTL(ttl)))
        /\ stats' = stats
        /\ nValue' = nValue
        /\ nAbsent' = nAbsent
        /\ deleted' = deleted \ {key}
        /\ last' = Step("set", "return", key, "ok", {})
        /\ CallFrame

CallDelete ==
    \E key \in SvcKeys :
        /\ CanCall
        /\ cache' = MemoryCache_delete(cache, key).cache
        /\ Suspend(Cont("delete", "delete", key, Null, 0))
        /\ CallFrame

CallClear ==
    /\ CanCall
    /\ cache' = MemoryCache_clear(cache)
    /\ Suspend(Cont("clear", "clear", "", Null, 0))
    /\ CallFrame

CallHas ==
    \E key \in SvcKeys :
        /\ CanCall
        /\ LET m == MemoryCache_has(cache, key, now) IN
            /\ cache' = m.cache
            /\ IF m.result
               THEN Finish("has", key, FALSE, "true", <<>>) /\ IdleIdb
               ELSE Suspend(Cont("has", "get", key, Null, 0))
        /\ CallFrame

\* The object literal of getStats is evaluated in order: hits, misses, hitRate
\* and memoryEntries (the size getter) before the first await.
CallGetStats ==
    /\ CanCall
    /\ LET m == MemoryCache_size(cache, now)
           snap == [hits |-> stats.hits, misses |-> stats.misses,
                    hitRate |-> HitRate(stats), memoryEntries |-> m.result,
                    indexedDBEntries |-> 0, totalSize |-> 0,
                    gValue |-> nValue, gAbsent |-> nAbsent]
       IN /\ cache' = m.cache
          /\ Suspend([Cont("getStats", "count", "", Null, 0) EXCEPT !.snap = <<snap>>])
    /\ CallFrame

-----------------------------------------------------------------------------
(* IndexedDB events: the open request of _init *)

EventFrame ==
    /\ UNCHANGED <<now, cache, calls>>
    /\ ConfigFrame

\* request.onsuccess of indexedDB.open: db is set, initPromise resolves, and the
\* call of init() that started _init sets initialized.
InitSuccess ==
    /\ initPromise = "pending"
    /\ db' = "open"
    /\ initPromise' = "resolved"
    /\ initialized' = TRUE
    /\ UNCHANGED <<store, initCount, initWaiters, txQueue, svcVars, faults, last>>
    /\ EventFrame

\* request.onerror of indexedDB.open: initPromise rejects and stays rejected.
InitFail ==
    /\ initPromise = "pending"
    /\ initPromise' = "rejected"
    /\ UNCHANGED <<store, db, initialized, initCount, initWaiters, txQueue, svcVars,
                   faults, last>>
    /\ EventFrame

\* The continuation of the oldest `await this.init()` once initPromise settled:
\* it creates its transaction, or the rejection is thrown into it.
ResumeWaiter ==
    /\ ~Quiet
    /\ LET r == Head(initWaiters) IN
        /\ initWaiters' = Tail(initWaiters)
        /\ IF initPromise = "resolved"
           THEN txQueue' = Append(txQueue, r) /\ UNCHANGED <<svcVars, last>>
           ELSE txQueue' = txQueue /\ Fail(r) /\ UNCHANGED enableMetrics
    /\ UNCHANGED <<store, db, initialized, initPromise, initCount, faults>>
    /\ EventFrame

-----------------------------------------------------------------------------
(* IndexedDB events: one transaction runs, and its continuation with it *)

TxReady(kinds) == Quiet /\ txQueue # <<>> /\ Head(txQueue).kind \in kinds

TxFrame ==
    /\ UNCHANGED <<db, initialized, initPromise, initCount, initWaiters, faults>>
    /\ EventFrame

\* The entry IndexedDBCache.set builds just before its put.
PutOf(r) == [r EXCEPT !.kind = "put", !.entry = <<CacheEntry(r.key, r.value, r.ttl, now)>>]

\* store.get(key) of IndexedDBCache.get, for CacheService.get and CacheService.has
TxGet ==
    /\ TxReady({"get"})
    /\ LET r == Head(txQueue)
           rest == Tail(txQueue)
           found == r.key \in DOMAIN store
           hit == found /\ ~Expired(store[r.key], now)
           value == IF hit THEN store[r.key].value ELSE Null
       IN /\ txQueue' =
                IF ~found THEN rest
                ELSE IF ~hit THEN Append(rest, Cont("expire", "delete", r.key, Null, 0))
                ELSE Append(rest, [Cont(r.op, "touch", r.key, Null, 0)
                                      EXCEPT !.entry = <<Touch(store[r.key], now)>>])
          /\ IF r.op = "get"
             THEN /\ Finish("get", r.key, FALSE, value, <<>>)
                  /\ cache' = IF hit THEN Promote(cache, r.key, value, now, maxEntries)
                              ELSE cache
             ELSE /\ Finish("has", r.key, FALSE, BoolStr(value # Null), <<>>)
                  /\ cache' = cache
    /\ UNCHANGED <<store, now, calls, faults>>
    /\ UNCHANGED <<db, initialized, initPromise, initCount, initWaiters>>
    /\ ConfigFrame

\* store.getAll() of getSize, summed: before a put (twice when evicting) and for
\* getStats
TxSize ==
    /\ TxReady({"size1", "size2", "sizeStats"})
    /\ LET r == Head(txQueue)
           rest == Tail(txQueue)
           size == IdbSize(store)
       IN CASE r.kind = "size1" ->
                 /\ txQueue' = Append(rest, IF size >= maxSize
                                            THEN [r EXCEPT !.kind = "evictExpired", !.arg = now]
                                            ELSE PutOf(r))
                 /\ Bg("set", "size1", r.key, "ok", {})
            [] r.kind = "size2" ->
                 /\ txQueue' = Append(rest, IF size >= maxSize
                                            THEN [r EXCEPT !.kind = "evictLRU",
                                                           !.arg = EvictTarget(maxSize)]
                                            ELSE PutOf(r))
                 /\ Bg("set", "size2", r.key, "ok", {})
            [] OTHER ->
                 /\ txQueue' = rest
                 /\ Finish("getStats", "", FALSE, "ok",
                           <<[r.snap[1] EXCEPT !.totalSize = size]>>)
    /\ UNCHANGED store
    /\ TxFrame

TxEvictExpired ==
    /\ TxReady({"evictExpired"})
    /\ LET r == Head(txQueue) IN
        /\ store' = IdbEvictExpired(store, r.arg)
        /\ txQueue' = Append(Tail(txQueue), [r EXCEPT !.kind = "size2"])
        /\ last' = [Step("set", "evictExpired", r.key, "ok", DOMAIN store \ DOMAIN store')
                        EXCEPT !.arg = r.arg]
        /\ UNCHANGED <<stats, nValue, nAbsent, deleted>>
    /\ TxFrame

TxEvictLRU ==
    /\ TxReady({"evictLRU"})
    /\ LET r == Head(txQueue) IN
        /\ store' = IdbEvictLRU(store, r.arg)
        /\ txQueue' = Append(Tail(txQueue), PutOf(r))
        /\ last' = [Step("set", "evictLRU", r.key, "ok", DOMAIN store \ DOMAIN store')
                        EXCEPT !.arg = r.arg]
        /\ UNCHANGED <<stats, nValue, nAbsent, deleted>>
    /\ TxFrame

\* store.put(entry): the write of IndexedDBCache.set, or the access write-back
\* of IndexedDBCache.get
TxPut ==
    /\ TxReady({"put", "touch"})
    /\ LET r == Head(txQueue) IN
        /\ store' = StorePut(store, r.entry[1])
        /\ txQueue' = Tail(txQueue)
        /\ Bg(r.op, r.kind, r.key, "ok", {})
    /\ TxFrame

TxDelete ==
    /\ TxReady({"delete"})
    /\ LET r == Head(txQueue) IN
        /\ store' = StoreDelete(store, r.key)
        /\ txQueue' = Tail(txQueue)
        /\ IF r.op = "delete"
           THEN Finish("delete", r.key, r.stale, "ok", <<>>)
           ELSE Bg(r.op, "delete", r.key, "ok", {})
    /\ TxFrame

TxClear ==
    /\ TxReady({"clear"})
    /\ store' = EmptyStore
    /\ txQueue' = Tail(txQueue)
    /\ Finish("clear", "", FALSE, "ok", <<>>)
    /\ TxFrame

\* store.count() of getEntryCount; getStats goes on to getSize
TxCount ==
    /\ TxReady({"count"})
    /\ LET r == Head(txQueue) IN
        /\ txQueue' = Append(Tail(txQueue),
                [r EXCEPT !.kind = "sizeStats",
                          !.snap = <<[r.snap[1] EXCEPT
                                        !.indexedDBEntries = Cardinality(DOMAIN store)]>>])
        /\ Bg("getStats", "count", "", "ok", {})
    /\ UNCHANGED store
    /\ TxFrame

\* request.onerror of the oldest transaction: nothing is stored and the promise
\* of its continuation rejects.
TxError ==
    /\ Quiet
    /\ txQueue # <<>>
    /\ faults < MaxFaults
    /\ faults' = faults + 1
    /\ txQueue' = Tail(txQueue)
    /\ Fail(Head(txQueue))
    /\ UNCHANGED <<store, db, initialized, initPromise, initCount, initWaiters>>
    /\ EventFrame

-----------------------------------------------------------------------------
(* The cache service after construction *)

\* What an earlier session may have left in the object store.
EarlierStores ==
    {EmptyStore, [k \in {"a"} |-> CacheEntry("a", "v1", 1, 0)]}

Init ==
    /\ now = 0
    /\ cache = <<>>
    /\ maxEntries = DefaultMaxMemoryEntries
    /\ store \in EarlierStores
    /\ db = "null"
    /\ initialized = FALSE
    /\ initPromise = "pending"
    /\ initCount = 1
    /\ initWaiters = <<>>
    /\ txQueue = <<>>
    /\ stats = [hits |-> 0, misses |-> 0]
    /\ enableMetrics \in BOOLEAN
    /\ maxSize = DefaultMaxIndexedDBSize
    /\ calls = 0
    /\ nValue = 0
    /\ nAbsent = 0
    /\ faults = 0
    /\ deleted = {}
    /\ last = NoStep
    /\ IdleOthers

\* The service is observed at start and just after each whole second.
SvcTimes == {t \in Times : t = 0 \/ (t > MsPerSecond /\ t % MsPerSecond = 1)}

SvcTick ==
    /\ Quiet
    /\ \E t \in SvcTimes : t > now /\ now' = t
    /\ UNCHANGED <<memVars, idbVars, svcVars, calls, faults, last, otherVars>>

Next ==
    \/ CallGet \/ CallSet \/ CallDelete \/ CallClear \/ CallHas \/ CallGetStats
    \/ InitSuccess \/ InitFail \/ ResumeWaiter
    \/ TxGet \/ TxSize \/ TxPut \/ TxDelete \/ TxClear \/ TxCount \/ TxError
    \/ SvcTick

Spec == Init /\ [][Next]_vars

-----------------------------------------------------------------------------
(* The durable tier under a small byte budget: writes that have to evict *)

EvictBudget == 300

\* Two entries left by an earlier session, written in either order.
EarlierFullStores ==
    {[k \in {"a", "b"} |-> CacheEntry(k, "v1", ttl, IF k = first THEN 0 ELSE 1)] :
        first \in {"a", "b"}, ttl \in {1, DefaultTTL}}

EvictInit ==
    /\ now = 1
    /\ cache = <<>>
    /\ maxEntries = DefaultMaxMemoryEntries
    /\ store \in EarlierFullStores
    /\ db = "null"
    /\ initialized = FALSE
    /\ initPromise = "pending"
    /\ initCount = 1
    /\ initWaiters = <<>>
    /\ txQueue = <<>>
    /\ stats = [hits |-> 0, misses |-> 0]
    /\ enableMetrics = TRUE
    /\ maxSize = EvictBudget
    /\ calls = 0
    /\ nValue = 0
    /\ nAbsent = 0
    /\ faults = 0
    /\ deleted = {}
    /\ last = NoStep
    /\ IdleOthers

EvictNext ==
    \/ CallSet \/ InitSuccess \/ ResumeWaiter
    \/ TxSize \/ TxEvictExpired \/ TxEvictLRU \/ TxPut
    \/ SvcTick

SpecEvict == EvictInit /\ [][EvictNext]_vars

-----------------------------------------------------------------------------
(* Claims about the memory tier *)

\* The spec's notion of a live entry: now < expiresAt.
Live(e, t) == t < e.expiresAt

LiveIndices(c, t) == {i \in 1..Len(c) : Live(c[i], t)}

\* C2 (as claimed): a get before createdAt + 1000*ttl returns the value; a get at
\* or after that instant returns absent and leaves the entry removed.
C2_TTLCorrectness ==
    /\ \A i \in 1..Len(cache) :
          \E ttl \in TTLs : cache[i].expiresAt = cache[i].createdAt + MsPerSecond * ttl
    /\ (last.op = "mem.get" /\ MapHas(last.pre.cache, last.key)) =>
          LET e == MapGet(last.pre.cache, last.key) IN
          IF last.at < e.expiresAt
          THEN last.result = e.value
          ELSE last.result = Null /\ (now = last.at => ~MapHas(cache, last.key))

\* C3 (as claimed): a set evicts exactly when the live entries number at least
\* the capacity, then exactly the live entry with the least accessedAt (the first
\* of them in Map order on a tie); otherwise no live entry is evicted.  Stated
\* for Maps that hold no empty key, whose eviction is the subject of C4, and no
\* entry at the very instant of its expiry, whose liveness is the subject of C2.
C3_LruEviction ==
    (/\ last.op = "mem.set"
     /\ "" \notin MapKeys(last.pre.cache)
     /\ \A i \in 1..Len(last.pre.cache) : last.pre.cache[i].expiresAt # last.at) =>
        LET c == last.pre.cache
            live == LiveIndices(c, last.at)
            lru == CHOOSE i \in live :
                      /\ \A j \in live : c[i].accessedAt <= c[j].accessedAt
                      /\ \A j \in live : j < i => c[j].accessedAt > c[i].accessedAt
        IN IF Cardinality(live) >= maxEntries
           THEN last.evicted = {c[lru].key}
           ELSE last.evicted \cap {c[i].key : i \in live} = {}

\* C4 (as claimed): the Map never holds more than maxEntries entries.
C4_CapacityInvariant == Len(cache) <= maxEntries

-----------------------------------------------------------------------------
(* Claims about the facade and the durable tier *)

Returned(op) == last.op = op /\ last.step = "return"

\* C1 (as claimed): after a CacheService.get returned a value, the fast tier
\* alone returns that value to a second get (the durable tier emptied or not).
C1_FacadePromotion ==
    (Returned("get") /\ last.result \in Values /\ now = last.at) =>
        MemoryCache_get(cache, last.key, now).result = last.result

\* C5 (as claimed): once CacheService.delete(key) completed, with no set(key)
\* issued since that delete began, neither tier holds an entry for key.
C5_DeleteBothTiers ==
    \A key \in deleted : ~MapHas(cache, key) /\ key \notin DOMAIN store

\* C6 (as claimed): CacheService.get and CacheService.set never fail to their
\* caller; the only failures of the model are those of the durable tier, and a
\* get that meets one is to return absent and count a miss.
C6_FailureRecovered ==
    (Returned("get") \/ Returned("set")) =>
        /\ last.result # "error"
        /\ (last.op = "get" /\ last.result = Null /\ enableMetrics) =>
              stats.misses = last.pre.stats.misses + 1

\* The reports of getStats: the one just returned and those being assembled.
StatsReports ==
    {last.snap[i] : i \in 1..Len(last.snap)}
      \cup {initWaiters[i].snap[1] : i \in {j \in 1..Len(initWaiters) : initWaiters[j].snap # <<>>}}
      \cup {txQueue[i].snap[1] : i \in {j \in 1..Len(txQueue) : txQueue[j].snap # <<>>}}

\* C7: with metrics enabled, hits and misses count the completed gets that
\* returned a value and absent; each such get moves exactly one counter by one;
\* getStats reports the counts of the moment it was called and
\* hitRate = h/(h+m), or 0 when h+m = 0.
C7_HitRateAccounting ==
    enableMetrics =>
        /\ stats.hits = nValue
        /\ stats.misses = nAbsent
        /\ (Returned("get") /\ last.result # "error") =>
              /\ stats.hits = last.pre.stats.hits + (IF last.result \in Values THEN 1 ELSE 0)
              /\ stats.misses = last.pre.stats.misses + (IF last.result = Null THEN 1 ELSE 0)
        /\ \A r \in StatsReports :
              /\ r.hits = r.gValue
              /\ r.misses = r.gAbsent
              /\ IF r.gValue + r.gAbsent = 0
                 THEN r.hitRate.num = 0
                 ELSE r.hitRate.num * (r.gValue + r.gAbsent) = r.gValue * r.hitRate.den

C7_Witness ==
    /\ enableMetrics
    /\ Returned("getStats")
    /\ last.result = "ok"
    /\ last.snap[1].hits + last.snap[1].misses > 0

\* C8 (as claimed): no step of CacheService.has changes the hit and miss
\* counters or the accessedAt and accessCount of an entry of either tier, and has
\* answers true iff a live entry exists (the instant now = expiresAt, the
\* subject of C2, is left open; the fast tier is the one seen when the call
\* began).
SameAccess(e, f) == e.accessedAt = f.accessedAt /\ e.accessCount = f.accessCount

C8_HasReadOnly ==
    last.op = "has" =>
        /\ stats = last.pre.stats
        /\ \A k \in DOMAIN store \cap DOMAIN last.pre.store :
              SameAccess(store[k], last.pre.store[k])
        /\ \A k \in MapKeys(cache) \cap MapKeys(last.pre.cache) :
              SameAccess(MapGet(cache, k), MapGet(last.pre.cache, k))
        /\ (last.step = "return" /\ last.result = "true") =>
              \/ MapHas(last.pre.cache, last.key)
                 /\ last.at <= MapGet(last.pre.cache, last.key).expiresAt
              \/ last.key \in DOMAIN last.pre.store
                 /\ last.at <= last.pre.store[last.key].expiresAt
        /\ (last.step = "return" /\ last.result = "false") =>
              ~(last.key \in DOMAIN last.pre.store
                /\ Live(last.pre.store[last.key], last.at))

\* C9: _init is started at most once; every caller that finds the setup pending
\* waits for that one promise; a transaction is issued, and the store changed,
\* only once the setup has completed.
TxSteps == {"size1", "size2", "evictExpired", "evictLRU", "put", "touch", "delete", "count"}

C9_SingleInit ==
    /\ initCount <= 1
    /\ initWaiters # <<>> => initPromise # "null"
    /\ txQueue # <<>> => (initPromise = "resolved" /\ db = "open" /\ initialized)
    /\ last.step \in TxSteps => (initPromise = "resolved" /\ db = "open")
    /\ initPromise \in {"pending", "rejected"} => (db = "null" /\ ~initialized)

C9_Witness ==
    /\ initPromise = "pending"
    /\ initCount = 1
    /\ Len(initWaiters) >= 2

\* C10 (as claimed): the purge deletes every entry expired when it was
\* requested; the eviction that follows never evicts an entry while keeping one
\* created earlier, and stops only once the target is freed or the store is empty.
C10_DurableEviction ==
    /\ last.step = "evictExpired" =>
          \A k \in DOMAIN store : store[k].expiresAt > last.arg
    /\ last.step = "evictLRU" =>
          /\ \A k \in last.evicted : \A j \in DOMAIN store :
                last.pre.store[k].createdAt <= last.pre.store[j].createdAt
          /\ \/ store = EmptyStore
             \/ SumSizes(last.pre.store, last.evicted) >= last.arg

\* C11 (as claimed): when an IndexedDBCache.set has completed (its put is done),
\* the estimated sizes of the stored entries sum to at most the budget maxSize.
C11_ByteBudget ==
    (last.op = "set" /\ last.step = "put") => IdbSize(store) <= maxSize

-----------------------------------------------------------------------------
(* The search-cache key builder (src/lib/database.ts)                      *)

\* JSON values: <<tag, payload>>.  A string is the sequence of its characters;
\* a number carries its decimal text; an array its elements; an object its
\* <<key, value>> pairs in insertion order.
Num(text) == <<"num", text>>
Str(text) == <<"str", text>>
Arr(xs) == <<"arr", xs>>
Obj(ps) == <<"obj", ps>>

\* UTF-16 code units of the characters that reach a comparison
CharCode ==
    (" " :> 32) @@ ("," :> 44) @@ ("1" :> 49) @@ ("2" :> 50) @@ ("O" :> 79) @@
    ("[" :> 91) @@ ("]" :> 93) @@ ("a" :> 97) @@ ("b" :> 98) @@ ("c" :> 99) @@
    ("e" :> 101) @@ ("j" :> 106) @@ ("o" :> 111) @@ ("t" :> 116)

\* x < y for strings: by code units, a proper prefix first
RECURSIVE StrLess(_, _)
StrLess(x, y) ==
    IF y = <<>> THEN FALSE
    ELSE IF x = <<>> THEN TRUE
    ELSE IF CharCode[Head(x)] < CharCode[Head(y)] THEN TRUE
    ELSE IF CharCode[Head(x)] > CharCode[Head(y)] THEN FALSE
    ELSE StrLess(Tail(x), Tail(y))

RECURSIVE Join(_, _)
Join(parts, sep) ==
    IF parts = <<>> THEN <<>>
    ELSE IF Len(parts) = 1 THEN Head(parts)
    ELSE Head(parts) \o sep \o Join(Tail(parts), sep)

ObjectObject == <<"[", "o", "b", "j", "e", "c", "t", " ", "O", "b", "j", "e", "c", "t", "]">>

\* String(v), as Array.prototype.sort() applies it to the elements it compares
RECURSIVE JsString(_)
JsString(v) ==
    CASE v[1] \in {"num", "str"} -> v[2]
      [] v[1] = "arr" -> Join([i \in 1..Len(v[2]) |-> JsString(v[2][i])], <<",">>)
      [] OTHER -> ObjectObject

\* sort() without a comparator: a stable sort by the string `s` of each item
RECURSIVE InsertStable(_, _)
InsertStable(sorted, it) ==
    IF sorted = <<>> THEN <<it>>
    ELSE IF StrLess(it.s, Head(sorted).s) THEN <<it>> \o sorted
    ELSE <<Head(sorted)>> \o InsertStable(Tail(sorted), it)

RECURSIVE StableSort(_)
StableSort(items) ==
    IF items = <<>> THEN <<>>
    ELSE InsertStable(StableSort(SubSeq(items, 1, Len(items) - 1)), items[Len(items)])

ArraySort(xs) ==
    LET sorted == StableSort([i \in 1..Len(xs) |-> [s |-> JsString(xs[i]), v |-> xs[i]]])
    IN [i \in 1..Len(xs) |-> sorted[i].v]

\* obj[key]
Member(ps, key) == (CHOOSE i \in 1..Len(ps) : ps[i][1] = key)

RECURSIVE sortObjectKeys(_)
sortObjectKeys(obj) ==
    CASE obj[1] = "arr" ->
            Arr(ArraySort([i \in 1..Len(obj[2]) |-> sortObjectKeys(obj[2][i])]))
      [] obj[1] = "obj" ->
            LET ps == obj[2]
                keys == StableSort([i \in 1..Len(ps) |-> [s |-> ps[i][1], v |-> ps[i][1]]])
            IN Obj([i \in 1..Len(ps) |->
                      <<keys[i].v, sortObjectKeys(ps[Member(ps, keys[i].v)][2])>>])
      [] OTHER -> obj

Quoted(text) == <<"\"">> \o text \o <<"\"">>

RECURSIVE Stringify(_)
Stringify(v) ==
    CASE v[1] = "num" -> v[2]
      [] v[1] = "str" -> Quoted(v[2])
      [] v[1] = "arr" ->
            <<"[">> \o Join([i \in 1..Len(v[2]) |-> Stringify(v[2][i])], <<",">>) \o <<"]">>
      [] OTHER ->
            <<"{">> \o Join([i \in 1..Len(v[2]) |->
                                Quoted(v[2][i][1]) \o <<":">> \o Stringify(v[2][i][2])],
                            <<",">>) \o <<"}">>

\* crypto.createHash('sha256').update(text).digest('hex'): one digest per text,
\* taken as free of collisions.
Sha256Hex(text) == <<"sha256", text>>

buildCacheKey(params) ==
    Sha256Hex(Stringify(Obj(<< <<(<<"z">>), Str(params.zipCode)>>,
                               <<(<<"r">>), Num(params.radiusKm)>>,
                               <<(<<"f">>), sortObjectKeys(params.filters)>>,
                               <<(<<"t">>), Str(params.insightType)>> >>)))

\* Bounds of the queries
MaxArrayLen == 2
MaxObjKeys == 2

SeqsUpTo(S, n) == UNION {[1..k -> S] : k \in 0..n}

Atoms == {Num(<<"1">>), Num(<<"2">>)}
ObjKeys == {<<"a">>, <<"b">>}

\* Objects of up to MaxObjKeys distinct keys with values in V
ObjectsOver(V) ==
    {Obj(ps) : ps \in {qs \in SeqsUpTo(ObjKeys \X V, MaxObjKeys) :
                          \A i, j \in 1..Len(qs) : qs[i][1] = qs[j][1] => i = j}}

ArraysOver(V) == {Arr(xs) : xs \in SeqsUpTo(V, MaxArrayLen)}

Level1 == Atoms \cup ArraysOver(Atoms) \cup ObjectsOver(Atoms)
Level2 == Level1 \cup ArraysOver(Level1)

\* The filters of a query: flat or nested objects, arrays of arrays and of objects
Filters == ObjectsOver(Level1) \cup {Obj(<< <<(<<"a">>), v>> >>) : v \in Level2}

KeyParams(filters) ==
    [zipCode |-> <<"2", "8", "2", "0", "2">>, radiusKm |-> <<"5">>,
     filters |-> filters, insightType |-> <<"INSIGHT_COUNT">>]

Swap(xs, i) == [xs EXCEPT ![i] = xs[i + 1], ![i + 1] = xs[i]]

\* The values that differ from v by one exchange of two neighbours: two keys of
\* an object or two elements of an array, at any nesting level.
RECURSIVE Reorder(_)
Reorder(v) ==
    IF v[1] \in {"num", "str"} THEN {}
    ELSE LET xs == v[2]
             swaps == {Swap(xs, i) : i \in 1..(Len(xs) - 1)}
             inner == UNION {
                 {[xs EXCEPT ![i] = IF v[1] = "arr" THEN w ELSE <<xs[i][1], w>>] :
                     w \in Reorder(IF v[1] = "arr" THEN xs[i] ELSE xs[i][2])} :
                 i \in 1..Len(xs)}
         IN {<<v[1], ys>> : ys \in swaps \cup inner}

KeyInit ==
    /\ query \in Filters
    /\ variant = query
    /\ keyPair = <<>>
    /\ IdleCache /\ IdleSearch /\ IdleMerge /\ IdleScore /\ IdleExtra

\* The same query, built in another order
KeyShuffle ==
    /\ keyPair = <<>>
    /\ variant' \in Reorder(variant)
    /\ UNCHANGED <<query, keyPair, cacheVars, searchVars, mergeVars, scoreVars, extraVars>>

KeyBuild ==
    /\ keyPair = <<>>
    /\ keyPair' = <<buildCacheKey(KeyParams(query)), buildCacheKey(KeyParams(variant))>>
    /\ UNCHANGED <<query, variant, cacheVars, searchVars, mergeVars, scoreVars, extraVars>>

KeyNext == KeyShuffle \/ KeyBuild

SpecKey == KeyInit /\ [][KeyNext]_vars

\* C12 (as claimed): two queries that differ only in the order of object keys or
\* of array elements, at any nesting level, get the same key.
C12_KeyDeterminism == keyPair # <<>> => keyPair[1] = keyPair[2]

-----------------------------------------------------------------------------
(* The search orchestrator (services/placesService.ts): merging two partial *)
(* results                                                                  *)

\* AGENT_CONFIG.maxPlacesForScan
MaxPlacesForScan == 80
\* the score from which a place counts as a high fit
HighFitScore == 80

\* A place is kept as its identifier and its fit score: [placeId, score].
\* An AggregateResponse is [totalCount, breakdownByType, places, fitStats], with
\* `places` the list that `r.places || []` yields.
EmptyBreakdown == [k \in {} |-> 0]

AggregateResponse(count, breakdown, places, highFit, avg) ==
    [totalCount |-> count, breakdownByType |-> breakdown, places |-> places,
     fitStats |-> [highFitCount |-> highFit, avgScore |-> avg]]

\* (the places taken as they come, with no deduplication)
UniqueByIdNoDedupe(ps) == ps

\* new Map(allPlaces.map(p => [p.placeId, p])).values(): one place per placeId,
\* at the position of its first occurrence, with the value of its last one.

UniqueById(ps) ==
    LET firsts == SelectSeq([i \in 1..Len(ps) |-> i],
                            LAMBDA i : \A j \in 1..(i - 1) : ps[j].placeId # ps[i].placeId)
        lastOf(i) == LET same == {j \in 1..Len(ps) : ps[j].placeId = ps[i].placeId}
                     IN CHOOSE j \in same : \A k \in same : k <= j
    IN [n \in 1..Len(firsts) |-> ps[lastOf(firsts[n])]]

\* sort((a, b) => b.fit.score - a.fit.score): stable, by non-increasing score.
\* The place at index i goes behind every place of a greater score and every
\* earlier place of the same score.
SortRank(ps, i) ==
    1 + Cardinality({j \in 1..Len(ps) : ps[j].score > ps[i].score})
      + Cardinality({j \in 1..(i - 1) : ps[j].score = ps[i].score})

SortByScore(ps) ==
    LET rank == [i \in 1..Len(ps) |-> SortRank(ps, i)]
    IN [n \in 1..Len(ps) |-> ps[CHOOSE i \in 1..Len(ps) : rank[i] = n]]

\* slice(0, n)
Slice(ps, n) == SubSeq(ps, 1, IF Len(ps) < n THEN Len(ps) ELSE n)

RECURSIVE SumScores(_)
SumScores(ps) == IF ps = <<>> THEN 0 ELSE Head(ps).score + SumScores(Tail(ps))

HighFitCount(ps) == Cardinality({i \in 1..Len(ps) : ps[i].score >= HighFitScore})

\* Math.floor(sum / (length || 1))
AvgScore(ps) == SumScores(ps) \div (IF Len(ps) = 0 THEN 1 ELSE Len(ps))

MergeBreakdown(b1, b2) ==
    [k \in DOMAIN b1 \cup DOMAIN b2 |->
        (IF k \in DOMAIN b1 THEN b1[k] ELSE 0) + (IF k \in DOMAIN b2 THEN b2[k] ELSE 0)]

\* `r.places || []`
PlacesOf(r) == IF "places" \in DOMAIN r THEN r.places ELSE <<>>

mergeAggregateResponses(r1, r2) ==
    LET allPlaces == PlacesOf(r1) \o PlacesOf(r2)
        uniquePlaces == SortByScore(UniqueById(allPlaces))
    IN AggregateResponse(r1.totalCount + r2.totalCount,
                         MergeBreakdown(r1.breakdownByType, r2.breakdownByType),
                         Slice(uniquePlaces, MaxPlacesForScan),
                         HighFitCount(uniquePlaces), AvgScore(uniquePlaces))

-----------------------------------------------------------------------------
(* The search orchestrator: executeAreaInsightsSearch                       *)
(*                                                                          *)
(* Every invocation issues one upstream aggregate request.  One action is   *)
(* the delivery of one answer with the continuation it resumes, or the      *)
(* continuation of an invocation whose two sub-searches have settled.       *)
(* Ratings are counted in units of 1/160, so that 0.1 is 16 units and the   *)
(* midpoints of the ranges used here are exact.                             *)

\* `recurseDepth < 3`
MaxDepth == 3
\* `filters.maxRating - filters.minRating < 0.1`, in rating units
MinSplitWidth == 16
\* HTTP status of the capacity / rate signal
TooManyRequests == 429

\* Bound: answers other than RESOURCE_EXHAUSTED within one search
MaxOtherResponses == 1

\* Rating ranges of the root: 0-5, 4.0-4.3 and 4.0-4.05
RootRanges == {<<0, 800>>, <<640, 688>>, <<640, 648>>}

\* Upstream answers.  A success carries the count and the places, already
\* looked up and scored.
Response(status, text, count, places) ==
    [status |-> status, text |-> text, count |-> count, places |-> places]

NoResponse == Response(0, "", 0, <<>>)

\* The capacity-exceeded answer of the upstream API
CapacityResponses == {Response(TooManyRequests, "RESOURCE_EXHAUSTED", 0, <<>>)}

\* Any other answer: the capacity signal in its other wording, a rate limit, a
\* server error, a success
OtherResponses ==
    {Response(TooManyRequests, "more than 100 places", 0, <<>>),
     Response(TooManyRequests, "Quota exceeded", 0, <<>>),
     Response(500, "Internal error", 0, <<>>),
     Response(200, "", 1, <<[placeId |-> 1, score |-> 90]>>)}

\* text.includes('RESOURCE_EXHAUSTED') || text.includes('100 places')
CapacityExceeded(text) == text \in {"RESOURCE_EXHAUSTED", "more than 100 places"}

\* response.ok
ResponseOk(resp) == resp.status \in 200..299

Node(depth, lo, hi) ==
    [depth |-> depth, minRating |-> lo, maxRating |-> hi, phase |-> "fetch",
     response |-> NoResponse, result |-> <<>>, error |-> <<>>]

\* (the depth test off by one: `recurseDepth <= 3`)
CanBisectInclusive(depth) == depth <= MaxDepth

CanBisect(depth) == depth < MaxDepth

TooNarrow(lo, hi) == hi - lo < MinSplitWidth

MidRating(lo, hi) == (lo + hi) \div 2

Bisects(n, resp) ==
    /\ resp.status = TooManyRequests
    /\ CapacityExceeded(resp.text)
    /\ CanBisect(n.depth)
    /\ ~TooNarrow(n.minRating, n.maxRating)

\* The error thrown under `if (!response.ok)`.  For a 429 the body was already
\* read by `await response.text()` in the branch above, and a second text() on
\* a consumed body rejects with a TypeError.
ThrownError(resp) ==
    IF resp.status = TooManyRequests
    THEN [name |-> "TypeError", status |-> Undefined, message |-> "body stream already read"]
    ELSE [name |-> "Error", status |-> resp.status, message |-> resp.text]

\* InsightType
InsightTypes == {"INSIGHT_COUNT", "INSIGHT_PLACES"}

\* (the identifiers taken as they come, with no cap)
ResourceNamesUncut(resp) == resp.places

\* The place identifiers whose details are fetched:
\* resourceNames.slice(0, AGENT_CONFIG.maxPlacesForScan)
ResourceNames(resp) == Slice(resp.places, MaxPlacesForScan)

\* The result of an invocation that got a success.  A count-only result has no
\* `places` and its highFitCount is Math.floor(count * 0.25).
LeafResult(resp, type) ==
    LET breakdown == IF resp.count > 0 THEN [k \in {"restaurant"} |-> resp.count]
                                       ELSE EmptyBreakdown
        places == SortByScore(SelectSeq(ResourceNames(resp), LAMBDA p : p.score # 0))
    IN IF type = "INSIGHT_COUNT"
       THEN [totalCount |-> resp.count, breakdownByType |-> breakdown,
             fitStats |-> [highFitCount |-> resp.count \div 4, avgScore |-> 0]]
       ELSE AggregateResponse(resp.count, breakdown, places,
                              HighFitCount(places), AvgScore(places))

\* The value of the .catch() handler of a sub-search
EmptyResult == AggregateResponse(0, EmptyBreakdown, <<>>, 0, 0)

\* (a sub-search without its .catch())
Uncaught(child) == child

\* A sub-search with its .catch(): a rejection becomes the empty result
Caught(child) ==
    IF child.phase = "error"
    THEN [child EXCEPT !.phase = "ok", !.result = <<EmptyResult>>, !.error = <<>>]
    ELSE child

\* (the merge taking the lower sub-search only)
SettleAllLowerOnly(n, lower, upper) ==
    IF lower.phase = "error" THEN [n EXCEPT !.phase = "error", !.error = lower.error]
    ELSE [n EXCEPT !.phase = "ok",
                   !.result = <<mergeAggregateResponses(lower.result[1], EmptyResult)>>]

\* await Promise.all([lower, upper]) and the merge
SettleAll(n, lower, upper) ==
    IF lower.phase = "error" THEN [n EXCEPT !.phase = "error", !.error = lower.error]
    ELSE IF upper.phase = "error" THEN [n EXCEPT !.phase = "error", !.error = upper.error]
    ELSE [n EXCEPT !.phase = "ok",
                   !.result = <<mergeAggregateResponses(lower.result[1], upper.result[1])>>]

Settled(n) == n.phase \in {"ok", "error"}

SearchFrame == UNCHANGED <<cacheVars, keyVars, mergeVars, scoreVars, extraVars>>

SearchInit ==
    /\ \E range \in RootRanges : nodes = (1 :> Node(0, range[1], range[2]))
    /\ requests = 1
    /\ others = 0
    /\ insightType \in InsightTypes
    /\ lastJoin = <<>>
    /\ IdleCache /\ IdleKey /\ IdleMerge /\ IdleScore /\ IdleExtra

\* The answer to the request of invocation i arrives
Respond(i, resp) ==
    /\ nodes[i].phase = "fetch"
    /\ LET n == [nodes[i] EXCEPT !.response = resp] IN
        IF Bisects(n, resp)
        THEN LET mid == MidRating(n.minRating, n.maxRating) IN
             /\ nodes' = (2 * i :> Node(n.depth + 1, n.minRating, mid)) @@
                         (2 * i + 1 :> Node(n.depth + 1, mid, n.maxRating)) @@
                         [nodes EXCEPT ![i] = [n EXCEPT !.phase = "split"]]
             /\ requests' = requests + 2
        ELSE /\ nodes' = [nodes EXCEPT ![i] =
                            IF ~ResponseOk(resp)
                            THEN [n EXCEPT !.phase = "error", !.error = <<ThrownError(resp)>>]
                            ELSE [n EXCEPT !.phase = "ok", !.result = <<LeafResult(resp, insightType)>>]]
             /\ UNCHANGED requests

RespondCapacity ==
    /\ \E i \in DOMAIN nodes, resp \in CapacityResponses : Respond(i, resp)
    /\ UNCHANGED <<others, insightType, lastJoin>>
    /\ SearchFrame

RespondOther ==
    /\ others < MaxOtherResponses
    /\ \E i \in DOMAIN nodes, resp \in OtherResponses : Respond(i, resp)
    /\ others' = others + 1
    /\ UNCHANGED <<insightType, lastJoin>>
    /\ SearchFrame

\* Both sub-searches of invocation i have settled
Resume ==
    /\ \E i \in DOMAIN nodes :
        /\ nodes[i].phase = "split"
        /\ Settled(nodes[2 * i]) /\ Settled(nodes[2 * i + 1])
        /\ nodes' = [j \in DOMAIN nodes \ {2 * i, 2 * i + 1} |->
                        IF j = i
                        THEN SettleAll(nodes[i], Caught(nodes[2 * i]), Caught(nodes[2 * i + 1]))
                        ELSE nodes[j]]
        /\ lastJoin' = <<[parent |-> nodes'[i], lower |-> nodes[2 * i],
                          upper |-> nodes[2 * i + 1]]>>
    /\ UNCHANGED <<requests, others, insightType>>
    /\ SearchFrame

SearchNext == RespondCapacity \/ RespondOther \/ Resume

SpecSearch == SearchInit /\ [][SearchNext]_vars

\* The search whose every request is answered with the capacity signal.  Every
\* answer arrives and every continuation runs.
ExhaustedNext == RespondCapacity \/ Resume

SpecExhausted == SearchInit /\ [][ExhaustedNext]_vars /\ WF_vars(ExhaustedNext)

\* The invocation bisected on the answer it got
Bisected(n) == Bisects(n, n.response)

\* C13: when every request is answered with the capacity signal, no invocation
\* is deeper than MaxDepth, an invocation that bisected completes with the empty
\* result (its failing sub-searches counted as empty, none raised to it), and
\* the search settles.
C13_BisectionTermination ==
    /\ [](\A i \in DOMAIN nodes : nodes[i].depth <= MaxDepth)
    /\ [](\A i \in DOMAIN nodes :
            (Bisected(nodes[i]) /\ Settled(nodes[i])) =>
                nodes[i].phase = "ok" /\ nodes[i].result = <<EmptyResult>>)
    /\ <>Settled(nodes[1])

\* A search bisected down to MaxDepth on every branch has settled with the
\* empty result.
C13_Witness ==
    /\ requests = 15
    /\ nodes[1].phase = "ok"
    /\ nodes[1].result = <<EmptyResult>>

\* C14 (as claimed): one search issues at most 2^maxDepth upstream requests.
C14_WorkBound == requests <= 2 ^ MaxDepth

\* C14 (amended): one search issues at most 2^(maxDepth+1) - 1 upstream
\* requests, one per invocation of a binary tree of depth maxDepth.
C14_WorkBoundAmended == requests <= 2 ^ (MaxDepth + 1) - 1

\* The bound is reached, in a search that also got another answer.
C14_Witness == requests = 2 ^ (MaxDepth + 1) - 1 /\ others > 0

\* C15 (as claimed): an invocation at depth 0..5 that gets the capacity signal
\* on a range wide enough to split bisects; it does not fail.
C15_DepthLimitSix ==
    \A i \in DOMAIN nodes :
        LET n == nodes[i] IN
        (/\ n.response.status = TooManyRequests
         /\ CapacityExceeded(n.response.text)
         /\ ~TooNarrow(n.minRating, n.maxRating)
         /\ n.depth < 6) => n.phase # "error"

\* C20 (as claimed): an invocation that fails on a non-success answer fails
\* with an error that carries the status and the body text of that answer.
C20_ErrorPropagation ==
    \A i \in DOMAIN nodes :
        nodes[i].phase = "error" =>
            /\ nodes[i].error[1].status = nodes[i].response.status
            /\ nodes[i].error[1].message = nodes[i].response.text

-----------------------------------------------------------------------------
(* mergeAggregateResponses on the partial results of two sub-searches       *)

\* Partial results as the sub-searches produce them: at most MaxPlacesForScan
\* places with distinct identifiers, by non-increasing score.  The two lists
\* may share identifiers (places on the boundary of the two rating ranges).
ListLengths == {0, 1, 2, MaxPlacesForScan}
FirstIds == {1, 2, 81}
Schemes == {"flat90", "flat50", "steps", "edge"}

SchemeScore(scheme, k) ==
    CASE scheme = "flat90" -> 90
      [] scheme = "flat50" -> 50
      [] scheme = "steps" -> 100 - k
      [] OTHER -> IF k <= 1 THEN 80 ELSE 79

PlaceList(first, n, scheme) ==
    [k \in 1..n |-> [placeId |-> first + k - 1, score |-> SchemeScore(scheme, k)]]

PartialResult(places) ==
    AggregateResponse(Len(places),
                      IF places = <<>> THEN EmptyBreakdown
                                       ELSE [k \in {"restaurant"} |-> Len(places)],
                      places, HighFitCount(places), AvgScore(places))

PartialResults(firsts) ==
    {PartialResult(PlaceList(first, n, scheme)) :
        first \in firsts, n \in ListLengths, scheme \in Schemes}

MergeInit ==
    /\ part1 \in PartialResults({1})
    /\ part2 \in PartialResults(FirstIds)
    /\ merged = <<>>
    /\ IdleCache /\ IdleKey /\ IdleSearch /\ IdleScore /\ IdleExtra

Merge ==
    /\ merged = <<>>
    /\ merged' = <<mergeAggregateResponses(part1, part2)>>
    /\ UNCHANGED <<part1, part2, cacheVars, keyVars, searchVars, scoreVars, extraVars>>

SpecMerge == MergeInit /\ [][Merge]_vars

PlaceIds(ps) == {ps[i].placeId : i \in 1..Len(ps)}
PlaceSet(ps) == {ps[i] : i \in 1..Len(ps)}
InputIds == PlaceIds(part1.places) \cup PlaceIds(part2.places)

\* C16: the merged places hold each identifier at most once, only places of the
\* two inputs, by non-increasing score, and min(distinct identifiers, 80) of them.
C16_MergedPlaces ==
    merged # <<>> =>
        LET ps == merged[1].places IN
        /\ \A i, j \in 1..Len(ps) : ps[i].placeId = ps[j].placeId => i = j
        /\ PlaceSet(ps) \subseteq PlaceSet(part1.places) \cup PlaceSet(part2.places)
        /\ \A i \in 1..(Len(ps) - 1) : ps[i].score >= ps[i + 1].score
        /\ Len(ps) = IF Cardinality(InputIds) < 80 THEN Cardinality(InputIds) ELSE 80

\* Two overlapping lists with more than 80 distinct places were merged.
C16_Witness ==
    /\ merged # <<>>
    /\ Len(merged[1].places) = 80
    /\ Cardinality(InputIds) > 80
    /\ Len(part1.places) + Len(part2.places) > Cardinality(InputIds)

\* C17 (as claimed): highFitCount counts the returned places with score >= 80
\* and avgScore is the floored mean score of the returned places.
C17_MergedFitStats ==
    merged # <<>> =>
        LET ps == merged[1].places IN
        /\ merged[1].fitStats.highFitCount =
              Cardinality({i \in 1..Len(ps) : ps[i].score >= 80})
        /\ Len(ps) > 0 => merged[1].fitStats.avgScore = SumScores(ps) \div Len(ps)

-----------------------------------------------------------------------------
(* Fit scoring: calculateFitScore                                           *)

\* AGENT_CONFIG (ratings in tenths: 3.8 and 4.9)
AGENT_CONFIG ==
    [minRatingForFit |-> 38, maxRatingForFit |-> 49,
     scoring |-> [independent |-> 20, idealPrice |-> 15, healthyRating |-> 10,
                  strongReviews |-> 10, commissionBleed |-> 35, noOrdering |-> 15,
                  legacySite |-> 10, lowConfidencePenalty |-> -5]]

LegacyPlatforms == {"WordPress", "Wix", "GoDaddy", "Custom", "Unknown"}

\* Ordering systems the tech detector reports, and String.prototype.toLowerCase
OrderingNames == {"ChowNow", "Owner.com"}
ToLowerCase == ("ChowNow" :> "chownow") @@ ("Owner.com" :> "owner.com")

\* text.includes('owner.com')
IncludesOwner(text) == text \in {"owner.com"}

\* (the test without toLowerCase())
UsesOwnerCaseSensitive(onlineOrdering) ==
    \E i \in 1..Len(onlineOrdering) : IncludesOwner(onlineOrdering[i])

\* tech.onlineOrdering.some(o => o.toLowerCase().includes('owner.com'))
UsesOwner(onlineOrdering) ==
    \E i \in 1..Len(onlineOrdering) : IncludesOwner(ToLowerCase[onlineOrdering[i]])

Reason(name, points) == [name |-> name, points |-> points]

\* (the no-ordering bonus under an `if` of its own, not the `else if`)
ReasonsBothBonuses(place, tech) ==
    LET S == AGENT_CONFIG.scoring IN
    <<Reason("Independent", S.independent)>>
    \o (IF place.priceLevel \in {"PRICE_LEVEL_MODERATE", "PRICE_LEVEL_EXPENSIVE"}
        THEN <<Reason("Ideal Price ($$-$$$)", S.idealPrice)>> ELSE <<>>)
    \o (IF /\ place.rating >= AGENT_CONFIG.minRatingForFit
           /\ place.rating <= AGENT_CONFIG.maxRatingForFit
        THEN <<Reason("Strong Rating", S.healthyRating)>> ELSE <<>>)
    \o (IF place.userRatingCount >= 100
        THEN <<Reason("Strong Review Volume", S.strongReviews)>> ELSE <<>>)
    \o (IF Len(tech.delivery) > 0 /\ ~tech.hasFirstPartyOrdering
        THEN <<Reason("High Commission Bleed (3P Only)", S.commissionBleed)>> ELSE <<>>)
    \o (IF ~tech.hasFirstPartyOrdering /\ Len(tech.onlineOrdering) = 0
        THEN <<Reason("No Online Ordering", S.noOrdering)>> ELSE <<>>)
    \o (IF tech.websitePlatform \in LegacyPlatforms
        THEN <<Reason("Legacy Website", S.legacySite)>> ELSE <<>>)

\* The reasons pushed after the two early returns, in the order of the pushes
Reasons(place, tech) ==
    LET S == AGENT_CONFIG.scoring IN
    <<Reason("Independent", S.independent)>>
    \o (IF place.priceLevel \in {"PRICE_LEVEL_MODERATE", "PRICE_LEVEL_EXPENSIVE"}
        THEN <<Reason("Ideal Price ($$-$$$)", S.idealPrice)>> ELSE <<>>)
    \o (IF /\ place.rating >= AGENT_CONFIG.minRatingForFit
           /\ place.rating <= AGENT_CONFIG.maxRatingForFit
        THEN <<Reason("Strong Rating", S.healthyRating)>> ELSE <<>>)
    \o (IF place.userRatingCount >= 100
        THEN <<Reason("Strong Review Volume", S.strongReviews)>> ELSE <<>>)
    \o (IF Len(tech.delivery) > 0 /\ ~tech.hasFirstPartyOrdering
        THEN <<Reason("High Commission Bleed (3P Only)", S.commissionBleed)>>
        ELSE IF ~tech.hasFirstPartyOrdering /\ Len(tech.onlineOrdering) = 0
        THEN <<Reason("No Online Ordering", S.noOrdering)>>
        ELSE <<>>)
    \o (IF tech.websitePlatform \in LegacyPlatforms
        THEN <<Reason("Legacy Website", S.legacySite)>> ELSE <<>>)

RECURSIVE SumPoints(_)
SumPoints(rs) == IF rs = <<>> THEN 0 ELSE Head(rs).points + SumPoints(Tail(rs))

\* Math.max(0, Math.min(score, 100))
Clamp(score) == IF score < 0 THEN 0 ELSE IF score > 100 THEN 100 ELSE score

\* names.join(", ")
RECURSIVE JoinNames(_)
JoinNames(names) ==
    IF names = <<>> THEN ""
    ELSE IF Len(names) = 1 THEN Head(names)
    ELSE Head(names) \o ", " \o JoinNames(Tail(names))

\* ` +${n} more`
MoreSuffix(n) == " +" \o ToString(n) \o " more"

ReasonString(rs) ==
    JoinNames([i \in 1..Len(Slice(rs, 3)) |-> rs[i].name])
    \o (IF Len(rs) > 3 THEN MoreSuffix(Len(rs) - 3) ELSE "")

FitAnalysis(score, reason, isIndie) ==
    [score |-> score, reason |-> reason, isIndependent |-> isIndie]

calculateFitScore(place, tech, isIndie) ==
    IF ~isIndie THEN FitAnalysis(0, "Chain Restaurant", FALSE)
    ELSE IF UsesOwner(tech.onlineOrdering) THEN FitAnalysis(0, "Already on Owner.com", isIndie)
    ELSE LET reasons == Reasons(place, tech)
             penalty == IF tech.confidence < 50
                        THEN AGENT_CONFIG.scoring.lowConfidencePenalty ELSE 0
         IN FitAnalysis(Clamp(SumPoints(reasons) + penalty), ReasonString(reasons), isIndie)

\* The candidates: every combination of the inputs around the thresholds
Places ==
    [priceLevel : {"PRICE_LEVEL_INEXPENSIVE", "PRICE_LEVEL_MODERATE", "PRICE_LEVEL_EXPENSIVE"},
     rating : {37, 38, 49, 50},
     userRatingCount : {99, 100}]

TechStacks ==
    [websitePlatform : {"WordPress", "Squarespace"},
     onlineOrdering : {<<>>, <<"ChowNow">>, <<"Owner.com">>, <<"ChowNow", "Owner.com">>},
     delivery : {<<>>, <<"DoorDash">>},
     confidence : {49, 50},
     hasFirstPartyOrdering : BOOLEAN]

ScoreInit ==
    /\ candidate \in [place : Places, tech : TechStacks, isIndie : BOOLEAN]
    /\ fit = <<>>
    /\ IdleCache /\ IdleKey /\ IdleSearch /\ IdleMerge /\ IdleExtra

Score ==
    /\ fit = <<>>
    /\ fit' = <<calculateFitScore(candidate.place, candidate.tech, candidate.isIndie)>>
    /\ UNCHANGED <<candidate, cacheVars, keyVars, searchVars, mergeVars, extraVars>>

SpecScore == ScoreInit /\ [][Score]_vars

\* C18: a place that is not independent scores 0, and so does a place one of
\* whose ordering systems is Owner.com, whatever its other inputs.
C18_ScoringShortCircuit ==
    fit # <<>> =>
        /\ ~candidate.isIndie => fit[1].score = 0
        /\ (\E i \in 1..Len(candidate.tech.onlineOrdering) :
                candidate.tech.onlineOrdering[i] = "Owner.com") => fit[1].score = 0

\* An independent place with every scoring reason and Owner.com among its
\* ordering systems was scored.
C18_Witness ==
    /\ fit # <<>>
    /\ candidate.isIndie
    /\ candidate.tech.onlineOrdering = <<"ChowNow", "Owner.com">>
    /\ candidate.place.priceLevel = "PRICE_LEVEL_MODERATE"
    /\ candidate.place.rating = 49
    /\ candidate.place.userRatingCount = 100
    /\ candidate.tech.delivery # <<>> /\ ~candidate.tech.hasFirstPartyOrdering

\* The place passed both early returns of calculateFitScore
Scored == candidate.isIndie /\ ~UsesOwner(candidate.tech.onlineOrdering)

\* C19 (as claimed): the reason string names min(3, number of triggered
\* reasons) triggered reasons, none of them worth less than a reason it does not
\* name, and ends with "+N more" for the N > 0 reasons not named.
C19_ReasonString ==
    (fit # <<>> /\ Scored) =>
        LET rs == Reasons(candidate.place, candidate.tech)
            T == {rs[i] : i \in 1..Len(rs)}
            k == IF Cardinality(T) < 3 THEN Cardinality(T) ELSE 3
        IN \E named \in SUBSET T :
              /\ Cardinality(named) = k
              /\ \A a \in named, b \in T \ named : a.points >= b.points
              /\ \E order \in [1..k -> named] :
                    /\ \A i, j \in 1..k : order[i] = order[j] => i = j
                    /\ fit[1].reason =
                          JoinNames([i \in 1..k |-> order[i].name])
                          \o (IF Cardinality(T) > k
                              THEN " +" \o ToString(Cardinality(T) - k) \o " more" ELSE "")

\* C30: for an independent place not on Owner.com the bonuses and the penalty
\* sum to between 15 and 100, the clamp leaves the sum as it is, the
\* commission-bleed and no-ordering bonuses are never both applied, and the
\* score is not 0 (the zero-score filter of the search keeps the place).
C30_ScoreBounds ==
    (fit # <<>> /\ Scored) =>
        LET rs == Reasons(candidate.place, candidate.tech)
            names == {rs[i].name : i \in 1..Len(rs)}
            sum == SumPoints(rs) + (IF candidate.tech.confidence < 50 THEN -5 ELSE 0)
        IN /\ sum >= 15 /\ sum <= 100
           /\ fit[1].score = sum
           /\ ~({"High Commission Bleed (3P Only)", "No Online Ordering"} \subseteq names)
           /\ fit[1].score # 0

\* A place with every bonus it can have was scored 100.
C30_Witness == fit # <<>> /\ Scored /\ fit[1].score = 100


-----------------------------------------------------------------------------
(* The proxy of the aggregate endpoint (src/api/places-compute-insights.ts;  *)
(* the route of the local server, kept as src/unnamed/part_000, has the same *)
(* steps) over the search_cache table (src/lib/database.ts).                 *)
(*                                                                          *)
(* The caller is taken as authorized and the API key as configured.  One    *)
(* action is one run of the handler between two awaits, or one statement    *)
(* run by the database.                                                     *)

\* `ttlDays ?? 7`
DefaultTtlDays == 7

\* Bounds: the days of a run and the requests handled in it
MaxDay == 8
MaxHandled == 2

\* `_meta` of a request body; an absent field is the empty string
NoMeta == [zipCode |-> <<>>, radiusKm |-> <<>>, filters |-> <<>>, insightType |-> <<>>]

\* `zipCode && filters && insightType`
HasSearchParams(meta) ==
    Len(meta.zipCode) > 0 /\ Len(meta.filters) > 0 /\ Len(meta.insightType) > 0

\* buildCacheKey({ zipCode, radiusKm: radiusKm ?? 5, filters, insightType })
CacheKeyOf(meta) ==
    buildCacheKey([meta EXCEPT !.radiusKm = IF meta.radiusKm = <<>> THEN <<"5">> ELSE @])

\* The request executeAreaInsightsSearch sends: insights and filter, no `_meta`
ClientRequest(q) == [query |-> q, meta |-> NoMeta, client |-> TRUE]

\* Requests of other callers, with a `_meta` that is complete, has no radius,
\* or has no zip code
DirectRequest(q, meta) == [query |-> q, meta |-> meta, client |-> FALSE]

QueryA == Obj(<< <<(<<"a">>), Num(<<"1">>)>> >>)
QueryB == Obj(<< <<(<<"a">>), Num(<<"2">>)>> >>)

ProxyRequests ==
    {ClientRequest(QueryA),
     DirectRequest(QueryA, KeyParams(QueryA)),
     DirectRequest(QueryA, [KeyParams(QueryA) EXCEPT !.radiusKm = <<>>]),
     DirectRequest(QueryA, [KeyParams(QueryA) EXCEPT !.zipCode = <<>>]),
     DirectRequest(QueryB, KeyParams(QueryB))}

\* Upstream answers: status and body text.  "{count}" stands for the JSON of a
\* computed insight, "{error}" for the JSON of an upstream error, "<html>" for
\* a body that is not JSON.
UpstreamResponses ==
    {[status |-> 200, body |-> "{count}"],
     [status |-> 200, body |-> ""],
     [status |-> 200, body |-> "<html>"],
     [status |-> TooManyRequests, body |-> "{error}"],
     [status |-> TooManyRequests, body |-> ""],
     [status |-> 500, body |-> "{error}"],
     [status |-> 502, body |-> "<html>"]}

\* JSON.parse(responseText) succeeds
Parseable(text) == text \in {"{count}", "{error}"}

\* JSON.parse(responseText)
JsonParse(text) == <<"object", text>>

\* What the handler does with the upstream answer: the status and body it
\* answers with, and whether it saves the body to the cache.
\* (the handler without `if (!response.ok) return ...`)
UpstreamOutcomeNoOkCheck(meta, resp) ==
    IF resp.body = ""
    THEN [status |-> IF resp.status # 0 THEN resp.status ELSE 500,
          body |-> <<"error", "Empty response from Google API">>, save |-> FALSE]
    ELSE IF ~Parseable(resp.body)
    THEN [status |-> 500, body |-> <<"error", "Invalid JSON from Google API">>,
          save |-> FALSE]
    ELSE [status |-> 200, body |-> JsonParse(resp.body), save |-> HasSearchParams(meta)]

UpstreamOutcome(meta, resp) ==
    IF resp.body = ""
    THEN [status |-> IF resp.status # 0 THEN resp.status ELSE 500,
          body |-> <<"error", "Empty response from Google API">>, save |-> FALSE]
    ELSE IF ~Parseable(resp.body)
    THEN [status |-> 500, body |-> <<"error", "Invalid JSON from Google API">>,
          save |-> FALSE]
    ELSE IF ~ResponseOk(resp)
    THEN [status |-> resp.status, body |-> JsonParse(resp.body), save |-> FALSE]
    ELSE [status |-> 200, body |-> JsonParse(resp.body), save |-> HasSearchParams(meta)]

\* getSearchCache: the result of the row of the key, unless there is no row or
\* `new Date(data.expires_at) < new Date()`; <<>> stands for null
getSearchCache(cacheKey) ==
    IF cacheKey \notin DOMAIN table THEN <<>>
    ELSE IF table[cacheKey].expires_at < today THEN <<>>
    ELSE <<table[cacheKey].result>>

\* setSearchCache up to its await: the row to upsert
SearchCacheRow(cacheKey, result) ==
    [cache_key |-> cacheKey, result |-> result, expires_at |-> today + DefaultTtlDays]

\* (history) An answer of the handler: to which request, received after how
\* many earlier answers, on which day, and whether upstream was asked
Answered(r, status, body, cached, upstream) ==
    [request |-> r.request, after |-> r.after, day |-> today, status |-> status,
     body |-> body, cached |-> cached, upstream |-> upstream]

Without(seq, i) == SubSeq(seq, 1, i - 1) \o SubSeq(seq, i + 1, Len(seq))

ProxyFrame ==
    UNCHANGED <<cacheVars, keyVars, searchVars, mergeVars, scoreVars, areaVars, listingVars,
                outbound>>

ProxyInit ==
    /\ IdleProxy
    /\ IdleCache /\ IdleKey /\ IdleSearch /\ IdleMerge /\ IdleScore /\ IdleArea
    /\ IdleListing /\ IdleCalls

\* A request arrives; the handler runs up to its first database or upstream call
Receive ==
    /\ Len(served) + Len(inflight) < MaxHandled
    /\ \E req \in ProxyRequests :
        inflight' = Append(inflight,
                           [request |-> req, after |-> Len(served),
                            pc |-> IF HasSearchParams(req.meta) THEN "lookup" ELSE "fetch"])
    /\ UNCHANGED <<today, table, writes, served>>
    /\ ProxyFrame

\* `await getSearchCache(cacheKey)` returns.  The delete of a stale row is
\* built and not awaited: the row is deleted or stays.
Lookup ==
    /\ \E i \in 1..Len(inflight) :
        /\ inflight[i].pc = "lookup"
        /\ LET req == inflight[i].request
               r == inflight[i]
               cacheKey == CacheKeyOf(req.meta)
               cached == getSearchCache(cacheKey)
               stale == cacheKey \in DOMAIN table /\ cached = <<>>
           IN IF cached # <<>>
              THEN /\ served' = Append(served, Answered(r, 200, cached[1], TRUE, FALSE))
                   /\ inflight' = Without(inflight, i)
                   /\ UNCHANGED table
              ELSE /\ inflight' = [inflight EXCEPT ![i].pc = "fetch"]
                   /\ \/ table' = table
                      \/ /\ stale
                         /\ table' = [k \in DOMAIN table \ {cacheKey} |-> table[k]]
                   /\ UNCHANGED served
    /\ UNCHANGED <<today, writes>>
    /\ ProxyFrame

\* The upstream answer arrives: the handler reads the body, answers, and on a
\* success with search parameters starts the write of the cache row
UpstreamAnswer ==
    /\ \E i \in 1..Len(inflight), resp \in UpstreamResponses :
        /\ inflight[i].pc = "fetch"
        /\ LET req == inflight[i].request
               out == UpstreamOutcome(req.meta, resp)
           IN /\ served' = Append(served, Answered(inflight[i], out.status, out.body, FALSE, TRUE))
              /\ writes' = IF out.save
                           THEN Append(writes, SearchCacheRow(CacheKeyOf(req.meta), out.body))
                           ELSE writes
        /\ inflight' = Without(inflight, i)
    /\ UNCHANGED <<today, table>>
    /\ ProxyFrame

\* fetch rejects: the outer catch answers 500
UpstreamThrows ==
    /\ \E i \in 1..Len(inflight) :
        /\ inflight[i].pc = "fetch"
        /\ served' = Append(served,
                            Answered(inflight[i], 500,
                                     <<"error", "Request failed">>, FALSE, TRUE))
        /\ inflight' = Without(inflight, i)
    /\ UNCHANGED <<today, table, writes>>
    /\ ProxyFrame

\* The database runs an upsert on cache_key
Upsert ==
    /\ \E j \in 1..Len(writes) :
        /\ table' = (writes[j].cache_key :>
                        [result |-> writes[j].result, expires_at |-> writes[j].expires_at])
                    @@ table
        /\ writes' = Without(writes, j)
    /\ UNCHANGED <<today, inflight, served>>
    /\ ProxyFrame

\* The upsert fails; setSearchCache logs the error
UpsertError ==
    /\ \E j \in 1..Len(writes) : writes' = Without(writes, j)
    /\ UNCHANGED <<today, table, inflight, served>>
    /\ ProxyFrame

NextDay ==
    /\ today < MaxDay
    /\ today' = today + 1
    /\ UNCHANGED <<table, inflight, writes, served>>
    /\ ProxyFrame

ProxyNext ==
    Receive \/ Lookup \/ UpstreamAnswer \/ UpstreamThrows \/ Upsert \/ UpsertError \/ NextDay

SpecProxy == ProxyInit /\ [][ProxyNext]_vars

SuccessPayload == JsonParse("{count}")

\* C29: a cache row, written or about to be written, holds the parsed body of
\* an upstream success; an upstream error, an empty body or a body that is not
\* JSON leaves the table as it was; an answer served from the cache is a
\* success payload.
C29_OnlySuccessCached ==
    /\ \A k \in DOMAIN table : table[k].result = SuccessPayload
    /\ \A j \in 1..Len(writes) : writes[j].result = SuccessPayload
    /\ \A i \in 1..Len(served) :
        served[i].cached => served[i].status = 200 /\ served[i].body = SuccessPayload

\* An upstream error was answered for a key whose row is in the table.
C29_Witness ==
    \E i \in 1..Len(served) :
        /\ served[i].status = TooManyRequests
        /\ HasSearchParams(served[i].request.meta)
        /\ CacheKeyOf(served[i].request.meta) \in DOMAIN table

\* C22 (as claimed): of two searches of the client for the same query, the
\* second sent after the answer to the first, the first a success and the second within the time to live of the first, with
\* an upstream that would answer the second as it answered the first, the
\* second is answered from the cache, with the same result and no upstream
\* request.
C22_RepeatFromCache ==
    \A i, j \in 1..Len(served) :
        (/\ served[j].after >= i
         /\ served[i].request.client /\ served[j].request.client
         /\ served[i].request.query = served[j].request.query
         /\ served[i].status = 200
         /\ served[j].day - served[i].day <= DefaultTtlDays
         /\ served[j].upstream => served[j].body = served[i].body)
        => /\ ~served[j].upstream
           /\ served[j].body = served[i].body

-----------------------------------------------------------------------------
(* searchPlacesAggregate over an upstream API that knows a fixed set of     *)
(* places.  The rating filter of the API is inclusive at both ends, and the *)
(* API refuses a request that matches more places than its limit.           *)

\* Bound: the number of places above which the API answers RESOURCE_EXHAUSTED
\* (100 in the API)
MaxInsightPlaces == 2

\* The places the API may know: identifier, rating (2.0, 2.5, 2.5, 3.0 in rating
\* units) and the fit score the place gets once looked up
KnownPlaces ==
    {[placeId |-> 1, rating |-> 320, score |-> 90],
     [placeId |-> 2, rating |-> 400, score |-> 85],
     [placeId |-> 3, rating |-> 400, score |-> 0],
     [placeId |-> 4, rating |-> 480, score |-> 50]}

\* ratingFilter: { minRating, maxRating }, as the API applies it
Matching(lo, hi) == {p \in population : lo <= p.rating /\ p.rating <= hi}

RECURSIVE InIdOrder(_)
InIdOrder(ps) ==
    IF ps = {} THEN <<>>
    ELSE LET p == CHOOSE q \in ps : \A r \in ps : q.placeId <= r.placeId
         IN <<[placeId |-> p.placeId, score |-> p.score]>> \o InIdOrder(ps \ {p})

\* The answer of the API to the request of an invocation
InsightAnswer(n) ==
    LET found == Matching(n.minRating, n.maxRating) IN
    IF Cardinality(found) > MaxInsightPlaces
    THEN Response(TooManyRequests, "RESOURCE_EXHAUSTED", 0, <<>>)
    ELSE Response(200, "", Cardinality(found), InIdOrder(found))

\* runMockSearch: a count and places made up from Math.random()
MockCounts == {40, 189}

runMockSearch(type, baseCount, score) ==
    LET places == IF type = "INSIGHT_PLACES"
                  THEN <<[placeId |-> 0, score |-> score]>> ELSE <<>>
    IN AggregateResponse(baseCount, [k \in {"restaurant"} |-> baseCount], places,
                         HighFitCount(places),
                         IF AvgScore(places) = 0 THEN 65 ELSE AvgScore(places))

\* The outcome of an async call: resolved with a value or rejected
Resolved(value) == [settled |-> "resolved", value |-> value]

AreaFrame ==
    UNCHANGED <<cacheVars, keyVars, mergeVars, scoreVars, proxyVars, listingVars, outbound>>

AreaInit ==
    /\ population \in SUBSET KnownPlaces
    /\ nodes = (1 :> Node(0, 0, 800))
    /\ requests = 1
    /\ others = 0
    /\ insightType \in InsightTypes
    /\ lastJoin = <<>>
    /\ okAnswers = 0
    /\ returned = <<>>
    /\ IdleCache /\ IdleKey /\ IdleMerge /\ IdleScore /\ IdleProxy /\ IdleListing
    /\ IdleCalls

\* The API answers the request of invocation i
InsightRespond ==
    /\ \E i \in DOMAIN nodes :
        /\ Respond(i, InsightAnswer(nodes[i]))
        /\ okAnswers' = okAnswers + (IF ResponseOk(InsightAnswer(nodes[i])) THEN 1 ELSE 0)
    /\ UNCHANGED <<others, insightType, lastJoin, population, returned>>
    /\ AreaFrame

\* The request of invocation i fails with a server error
InsightFail ==
    /\ \E i \in DOMAIN nodes : Respond(i, Response(500, "Internal error", 0, <<>>))
    /\ UNCHANGED <<others, insightType, lastJoin, population, okAnswers, returned>>
    /\ AreaFrame

\* searchPlacesAggregate returns: the result of the search, or on any error
\* the result of runMockSearch
Return ==
    /\ returned = <<>>
    /\ Settled(nodes[1])
    /\ IF nodes[1].phase = "ok"
       THEN returned' = <<Resolved(nodes[1].result[1])>>
       ELSE \E baseCount \in MockCounts, score \in {35, 50} :
                returned' = <<Resolved(runMockSearch(insightType, baseCount, score))>>
    /\ UNCHANGED <<nodes, requests, others, insightType, lastJoin, population, okAnswers>>
    /\ AreaFrame

AreaNext == InsightRespond \/ InsightFail \/ Resume \/ Return

SpecArea == AreaInit /\ [][AreaNext]_vars

\* C21 (as claimed): a search none of whose upstream aggregate requests was
\* answered with a success ends with an error signal.
C21_ErrorSignal ==
    (returned # <<>> /\ okAnswers = 0) => returned[1].settled = "rejected"

\* C23 (as claimed): the result of an invocation has a places list exactly when
\* the insight type is the full-listing one.
C23_ResultShape ==
    \A i \in DOMAIN nodes :
        nodes[i].phase = "ok" =>
            (("places" \in DOMAIN nodes[i].result[1]) <=> insightType = "INSIGHT_PLACES")

\* C24 (as claimed): when both halves of a bisection were answered by the API,
\* no place is matched by both and the merged totalCount is the number of
\* distinct places matching the whole range.
C24_DisjointPartitions ==
    (/\ lastJoin # <<>>
     /\ ResponseOk(lastJoin[1].lower.response)
     /\ ResponseOk(lastJoin[1].upper.response))
    => LET j == lastJoin[1] IN
       /\ Matching(j.lower.minRating, j.lower.maxRating)
              \cap Matching(j.upper.minRating, j.upper.maxRating) = {}
       /\ j.parent.result[1].totalCount
              = Cardinality(Matching(j.parent.minRating, j.parent.maxRating))

\* What a settled sub-search contributes to the merge
Contribution(child) == IF child.phase = "ok" THEN child.result[1] ELSE EmptyResult

\* C25: an invocation that waits for its sub-searches has both of them in
\* progress or settled; it resumes only when both have settled, and then
\* completes with the merge of the two contributions, the contribution of a
\* failed sub-search being the empty result: with one failure the merged count,
\* breakdown and places are those of the surviving sub-search.
C25_MergeAfterBoth ==
    /\ \A i \in DOMAIN nodes :
        nodes[i].phase = "split" => {2 * i, 2 * i + 1} \subseteq DOMAIN nodes
    /\ lastJoin # <<>> =>
        LET j == lastJoin[1]
            survives(a, b) ==
                (a.phase = "ok" /\ b.phase = "error") =>
                    /\ j.parent.result[1].totalCount = a.result[1].totalCount
                    /\ j.parent.result[1].breakdownByType = a.result[1].breakdownByType
                    /\ PlacesOf(j.parent.result[1]) = PlacesOf(a.result[1])
                    /\ insightType = "INSIGHT_PLACES" =>
                           j.parent.result[1].fitStats = a.result[1].fitStats
        IN /\ Settled(j.lower) /\ Settled(j.upper)
           /\ j.parent.phase = "ok"
           /\ j.parent.result[1]
                  = mergeAggregateResponses(Contribution(j.lower), Contribution(j.upper))
           /\ survives(j.lower, j.upper)
           /\ survives(j.upper, j.lower)

\* The lower sub-search failed and the upper one found places.
C25_Witness ==
    /\ lastJoin # <<>>
    /\ lastJoin[1].lower.phase = "error"
    /\ lastJoin[1].upper.phase = "ok"
    /\ PlacesOf(lastJoin[1].upper.result[1]) # <<>>
    /\ lastJoin[1].parent.phase = "ok"

-----------------------------------------------------------------------------
(* Claims about two writes of one key *)

\* Every durable write that was started has finished
WritesFinished == initPromise # "pending" /\ initWaiters = <<>> /\ txQueue = <<>>

\* C28 (as claimed): once the durable writes of the sets issued so far have
\* finished, a key held by both tiers has in the durable tier the value of the
\* fast tier, which is the value of the last set of the key.
C28_TiersConverge ==
    WritesFinished =>
        \A k \in MapKeys(cache) \cap DOMAIN store : store[k].value = MapGet(cache, k).value

-----------------------------------------------------------------------------
(* Full listings: the two sub-searches of a bisection, each answered with a *)
(* list of places, and their merge                                          *)

\* Upstream answers of up to 100 places.  The fit score a place gets once
\* looked up falls along the list ("falling"), rises from 0 ("rising") or is 90.
RawScore(scheme, k) ==
    CASE scheme = "falling" -> 100 - k
      [] scheme = "rising" -> k - 1
      [] OTHER -> 90

RawAnswer(first, n, scheme) ==
    Response(200, "", n, [k \in 1..n |-> [placeId |-> first + k - 1,
                                          score |-> RawScore(scheme, k)]])

LowerAnswers ==
    {RawAnswer(1, n, scheme) : n \in {0, 2, 81}, scheme \in {"falling", "rising"}}

UpperAnswers ==
    {RawAnswer(first, n, scheme) :
        first \in {1, 51}, n \in {1, 100}, scheme \in {"falling", "flat"}}

ListingFrame == UNCHANGED <<cacheVars, keyVars, searchVars, mergeVars, scoreVars,
                            proxyVars, areaVars, outbound>>

ListingInit ==
    /\ raws \in {<<lo, up>> : lo \in LowerAnswers, up \in UpperAnswers}
    /\ fetched = <<>>
    /\ lowerRes = <<>>
    /\ upperRes = <<>>
    /\ listing = <<>>
    /\ IdleCache /\ IdleKey /\ IdleSearch /\ IdleMerge /\ IdleScore
    /\ IdleProxy /\ IdleArea /\ IdleCalls

\* The lower sub-search gets its answer, looks the places up and returns
LowerReturns ==
    /\ lowerRes = <<>>
    /\ lowerRes' = <<LeafResult(raws[1], "INSIGHT_PLACES")>>
    /\ fetched' = Append(fetched, Len(ResourceNames(raws[1])))
    /\ UNCHANGED <<raws, upperRes, listing>>
    /\ ListingFrame

UpperReturns ==
    /\ upperRes = <<>>
    /\ upperRes' = <<LeafResult(raws[2], "INSIGHT_PLACES")>>
    /\ fetched' = Append(fetched, Len(ResourceNames(raws[2])))
    /\ UNCHANGED <<raws, lowerRes, listing>>
    /\ ListingFrame

\* The upper sub-search fails; its .catch() yields the empty result
UpperFails ==
    /\ upperRes = <<>>
    /\ upperRes' = <<EmptyResult>>
    /\ UNCHANGED <<raws, fetched, lowerRes, listing>>
    /\ ListingFrame

MergeListing ==
    /\ lowerRes # <<>> /\ upperRes # <<>> /\ listing = <<>>
    /\ listing' = <<mergeAggregateResponses(lowerRes[1], upperRes[1])>>
    /\ UNCHANGED <<raws, fetched, lowerRes, upperRes>>
    /\ ListingFrame

ListingNext == LowerReturns \/ UpperReturns \/ UpperFails \/ MergeListing

SpecListing == ListingInit /\ [][ListingNext]_vars

\* At most 80 places, by non-increasing score, each of a score above 0
WellFormedListing(r) ==
    LET ps == r.places IN
    /\ Len(ps) <= 80
    /\ \A i \in 1..(Len(ps) - 1) : ps[i].score >= ps[i + 1].score
    /\ \A i \in 1..Len(ps) : ps[i].score > 0

\* C26: the result of each sub-search and the merged result hold at most 80
\* places, by non-increasing fit score, each with a score above 0; details are
\* fetched for at most 80 places of one upstream answer.
C26_FullListing ==
    /\ \A r \in {lowerRes, upperRes, listing} : r # <<>> => WellFormedListing(r[1])
    /\ \A i \in 1..Len(fetched) : fetched[i] <= 80

\* Both answers held more than 80 places, one of them a place of score 0, and
\* the merged listing is full.
C26_Witness ==
    /\ listing # <<>>
    /\ Len(listing[1].places) = 80
    /\ Len(raws[1].places) > 80 /\ Len(raws[2].places) > 80
    /\ \E i \in 1..Len(raws[1].places) : raws[1].places[i].score = 0
    /\ Len(fetched) = 2

-----------------------------------------------------------------------------
(* The outbound calls of one full-listing invocation: the aggregate request, *)
(* one detail fetch per place, one website crawl per place that has a       *)
(* website.  The network may answer a call, fail it, or never answer; the   *)
(* continuations of the invocation run, and a timer that was set fires.     *)

\* The places of the upstream answer
ScanPlaces == {1, 2, 3}

\* The calls as the invocation starts: the aggregate request is out
CallsStarted ==
    [aggregate |-> "pending",
     details |-> [p \in ScanPlaces |-> "none"],
     crawls |-> [p \in ScanPlaces |-> "none"],
     done |-> FALSE]

CallsFrame == UNCHANGED <<cacheVars, keyVars, searchVars, mergeVars, scoreVars,
                          proxyVars, areaVars, listingVars>>

CallsInit ==
    /\ outbound = CallsStarted
    /\ IdleCache /\ IdleKey /\ IdleSearch /\ IdleMerge /\ IdleScore
    /\ IdleProxy /\ IdleArea /\ IdleListing

\* The aggregate request is answered 200: one fetchPlaceDetails per place
AggregateAnswers ==
    /\ outbound.aggregate = "pending"
    /\ outbound' = [outbound EXCEPT !.aggregate = "ok",
                                    !.details = [p \in ScanPlaces |-> "pending"]]
    /\ CallsFrame

\* The aggregate request fails: the invocation throws
AggregateFails ==
    /\ outbound.aggregate = "pending"
    /\ outbound' = [outbound EXCEPT !.aggregate = "failed", !.done = TRUE]
    /\ CallsFrame

\* A detail fetch settles: a place with a website, one without, or null (the
\* answer is not ok, or fetch rejects)
DetailAnswers ==
    /\ \E p \in ScanPlaces, outcome \in {"website", "no website", "null"} :
        /\ outbound.details[p] = "pending"
        /\ outbound' = [outbound EXCEPT !.details[p] = outcome]
    /\ CallsFrame

\* `await Promise.all(detailPromises)` resumes: one crawl per place with a website
DetailsSettled ==
    /\ outbound.aggregate = "ok"
    /\ \A p \in ScanPlaces : outbound.details[p] \in {"website", "no website", "null"}
    /\ \A p \in ScanPlaces : outbound.crawls[p] = "none"
    /\ ~outbound.done
    /\ outbound' =
        IF \E p \in ScanPlaces : outbound.details[p] = "website"
        THEN [outbound EXCEPT !.crawls = [p \in ScanPlaces |->
                IF outbound.details[p] = "website" THEN "pending" ELSE "skipped"]]
        ELSE [outbound EXCEPT !.crawls = [p \in ScanPlaces |-> "skipped"], !.done = TRUE]
    /\ CallsFrame

\* A crawl settles: the page, or null (the answer is not ok, or fetch rejects)
CrawlAnswers ==
    /\ \E p \in ScanPlaces, outcome \in {"html", "null"} :
        /\ outbound.crawls[p] = "pending"
        /\ outbound' = [outbound EXCEPT !.crawls[p] = outcome]
    /\ CallsFrame

\* AbortSignal.timeout(10000) fires: fetch rejects and crawlWebsite returns null
CrawlTimesOut ==
    /\ \E p \in ScanPlaces :
        /\ outbound.crawls[p] = "pending"
        /\ outbound' = [outbound EXCEPT !.crawls[p] = "timeout"]
    /\ CallsFrame

\* `await Promise.all(validDetails.map(...))` resumes: the invocation returns
EnrichmentSettled ==
    /\ ~outbound.done
    /\ \E p \in ScanPlaces : outbound.crawls[p] # "none"
    /\ \A p \in ScanPlaces : outbound.crawls[p] # "pending"
    /\ outbound' = [outbound EXCEPT !.done = TRUE]
    /\ CallsFrame

CallsNext ==
    \/ AggregateAnswers \/ AggregateFails \/ DetailAnswers \/ DetailsSettled
    \/ CrawlAnswers \/ CrawlTimesOut \/ EnrichmentSettled

\* The continuations run and the timers fire; no answer of the network is
\* guaranteed.
SpecCalls ==
    /\ CallsInit
    /\ [][CallsNext]_vars
    /\ WF_vars(DetailsSettled)
    /\ WF_vars(CrawlTimesOut)
    /\ WF_vars(EnrichmentSettled)

\* C27 (as claimed): the invocation completes, whatever calls the network
\* never answers.
C27_SearchTerminates == <>(outbound # <<>> /\ outbound.done)
=============================================================================
